---- MODULE Spec2Model ----
EXTENDS Integers, Sequences, FiniteSets, TLC

(***************************************************************************)
(* Live ingestion and reconciliation pipeline of the GrapeGuard client:    *)
(*   - LiveMonitoringService  (services/LiveMonitoringService.js)          *)
(*   - AnalysisSupabaseService (services/AnalysisSupabaseService.js)       *)
(*   - LiveCameraFeed          (components/live-monitoring/...)            *)
(* JavaScript runs one task at a time; every `await` is a point where      *)
(* another handler may run.  Each action below is the code between two     *)
(* awaits of one handler.                                                  *)
(***************************************************************************)

VARIABLES
    \* ---- the remote archive and the persisted store (external) ----
    layout,            \* which archive the Drive folder holds (fixed per behaviour)
    detections,        \* rows of the `detections` table, oldest first
    \* ---- LiveMonitoringService instance ----
    processedImages,   \* this.processedImages
    isProcessing,      \* this.isProcessing
    pollingInterval,   \* this.pollingInterval: 0 = null, else the interval id
    timers,            \* interval ids that are still armed in the browser
    calls,             \* in-flight / last calls of the async methods, per slot
    ingested,          \* IDs marked by completed runs since the last clear of the ledger
    failedLast,        \* IDs that failed in the last completed run, until the next scan starts
    \* ---- LiveCameraFeed: React state of the component ----
    detectionHistory,  \* entries shown in the feed, in display order
    isLoadingPage,
    isDriveFallback,
    processedDriveIds,
    driveCache,        \* images accumulated from the archive listing
    driveFolders,      \* date folders known to the component (their number)
    driveFolderIndex,
    drivePage,
    isModelLoaded,
    isAutoProcessing,
    hasMoreDisplay,
    supabasePage,
    supabaseHasMore,
    driveHasMore,
    \* ---- LiveCameraFeed: handlers in flight, and what the archive serves ----
    fetchable,         \* images whose content can be downloaded (fixed per behaviour)
    threads,           \* async handler invocations, each with the render it closed over
    request,           \* the history request in flight (paged feed)
    reply,             \* the last answer of listUserAnalysesPaged
    started,           \* handler invocations so far in this session
    issued,            \* IDs loadDriveRecent returned since processedDriveIds last changed
    repeated           \* some call of loadDriveRecent returned an ID of `issued` again

svcVars == <<layout, detections, processedImages, isProcessing, pollingInterval,
             timers, calls, ingested, failedLast>>

feedVars == <<detectionHistory, isLoadingPage, isDriveFallback, processedDriveIds,
              driveCache, driveFolders, driveFolderIndex, drivePage, isModelLoaded,
              isAutoProcessing, hasMoreDisplay, fetchable, threads, started, issued,
              repeated>>

pageVars == <<supabasePage, supabaseHasMore, driveHasMore, request, reply>>

vars == <<svcVars, feedVars, pageVars>>

----------------------------------------------------------------------------
\* Bounds of the model
NumImages == 2      \* images in the archive
MaxSlots  == 2      \* async method calls of the service that can be in flight at once
MaxRows   == 2      \* rows the detections table can hold in a behaviour
MaxTimers == 1      \* interval ids handed out by setInterval
MaxOlderFolders == 2    \* date folders behind the newest one in the archive "deep"

\* Program constants
BATCH_SIZE == 5     \* this.BATCH_SIZE
DRIVE_BATCH_SIZE == 5    \* LiveCameraFeed: const DRIVE_BATCH_SIZE = 5
listingPageSize == 100   \* GoogleDriveService.getImagesFromFolder: pageSize=100
targetBatch == 10         \* loadDriveImages of the paged feed: const targetBatch = DRIVE_BATCH_SIZE

Images  == 1..NumImages
Slots   == 1..MaxSlots
Users   == {"u1"}
Layouts == {"one", "two", "mixed", "none"}

\* ---- the archive: date folders (name desc) and the first listing page of each ----
\* createdTime of an image (larger = newer)
TimeOf(lay, i) ==
    IF lay = "mixed" THEN (IF i % 2 = 1 THEN i ELSE NumImages + i)
    ELSE NumImages + 1 - i

\* file name class: 1 = "..._1.jpg", 2 = "..._2.jpg", 0 = anything else
NameOf(i) == IF i % 3 = 0 THEN 0 ELSE IF i % 2 = 0 THEN 2 ELSE 1

RECURSIVE SeqOfSet(_)
\* the elements of a set of integers, in increasing order
SeqOfSet(S) ==
    IF S = {} THEN <<>>
    ELSE LET m == CHOOSE x \in S : \A y \in S : x <= y
         IN  <<m>> \o SeqOfSet(S \ {m})

\* ---- helpers on sequences ----
Range(s) == {s[k] : k \in 1..Len(s)}

Take_All(s, n) == s

Take(s, n) == IF Len(s) <= n THEN s ELSE SubSeq(s, 1, n)

RECURSIVE FilterSeq(_, _)
\* Array.prototype.filter with the predicate `member of keep`
FilterSeq(s, keep) ==
    IF s = <<>> THEN <<>>
    ELSE (IF Head(s) \in keep THEN <<Head(s)>> ELSE <<>>) \o FilterSeq(Tail(s), keep)

\* insert x behind every element that is not older than x (stable, newest first)
RECURSIVE InsertByTime(_, _, _)
InsertByTime(lay, s, x) ==
    IF s = <<>> THEN <<x>>
    ELSE IF TimeOf(lay, Head(s)) >= TimeOf(lay, x)
         THEN <<Head(s)>> \o InsertByTime(lay, Tail(s), x)
         ELSE <<x>> \o s

RECURSIVE SortByTimeDesc(_, _)
\* unprocessedImages.sort((a, b) => new Date(b.createdTime) - new Date(a.createdTime))
SortByTimeDesc(lay, s) ==
    IF s = <<>> THEN <<>>
    ELSE InsertByTime(lay, SortByTimeDesc(lay, SubSeq(s, 1, Len(s) - 1)), s[Len(s)])

\* the date folders of the archive, newest name first, each with all its image files,
\* newest first.  In "long" the older folder holds listingPageSize files without a camera
\* suffix and, behind them, image 1; in "full" the newest folder fills one batch of the
\* paged feed and an older folder follows.
Archive(lay) ==
    CASE lay = "none"  -> <<>>
      [] lay = "deep"  -> << [k \in 1..DRIVE_BATCH_SIZE |-> k] >> \o
                          [f \in 1..MaxOlderFolders |-> << DRIVE_BATCH_SIZE + f >>]
      [] lay = "one"   -> << SortByTimeDesc(lay, SeqOfSet(Images)) >>
      [] lay = "long"  -> << <<2>>, [k \in 1..listingPageSize |-> 3 * k] \o <<1>> >>
      [] lay = "full"  -> << [k \in 1..targetBatch |-> k], << targetBatch + 1 >> >>
      [] lay = "hollow" -> << <<>> >>
      [] OTHER         -> << SortByTimeDesc(lay, SeqOfSet({i \in Images : i % 2 = 1})),
                             SortByTimeDesc(lay, SeqOfSet({i \in Images : i % 2 = 0})) >>

\* GoogleDriveService.getDateFolders(): the folders, newest name first; each folder is
\* given as what getImagesFromFolder(folder.id) lists for it: the first page of the
\* listing (orderBy createdTime desc, pageSize 100), the nextPageToken is not read
Folders(lay) == [f \in 1..Len(Archive(lay)) |-> Take(Archive(lay)[f], listingPageSize)]

\* ---- the persisted store ----
\* A row carries the Drive image it was made from (origin, 0 for none) and whether that ID
\* sits at analysis_result.originDriveId (flat) or one level deeper.
\* AnalysisSupabaseService.listProcessedDriveIds(user): the IDs found at
\* analysis_result.originDriveId in the user's live rows
ListProcessedDriveIds(rows, u) ==
    {rows[k].origin : k \in {j \in 1..Len(rows) :
        /\ rows[j].user = u /\ rows[j].type = "live"
        /\ rows[j].flat /\ rows[j].origin # 0}}

\* the row uploadImagesAndSave + createDetection insert for a Drive image: createDetection
\* stores the whole detectionData as analysis_result, so the origin metadata that
\* uploadImagesAndSave keeps in detectionData.analysis_result ends up one level deeper
LiveRow(u, i) ==
    [user |-> u, type |-> "live", origin |-> i, flat |-> FALSE,
     camera |-> IF NameOf(i) = 2 THEN 2 ELSE 1]

\* a live row of a writer that keeps originDriveId at the top of analysis_result
ListedRow(u, i) == [LiveRow(u, i) EXCEPT !.flat = TRUE]


----------------------------------------------------------------------------
\* LiveMonitoringService

\* a slot that holds no call
NoCall ==
    [kind |-> "none", pc |-> "idle", user |-> "u1", limit |-> 0, fi |-> 0,
     acc |-> <<>>, batch |-> <<>>, out |-> <<>>, result |-> <<>>,
     status |-> "none", scanFailed |-> FALSE, skipped |-> FALSE,
     grew |-> FALSE, marked |-> {}, stale |-> FALSE]

\* a promise that has settled is consumed by its awaiting caller before any other task runs
Quiet == \A s \in Slots : calls[s].pc \notin {"scanned", "done"}

\* a new call takes the first slot that holds no call
Free(s) ==
    /\ Quiet
    /\ calls[s].pc = "idle"
    /\ \A r \in Slots : r < s => calls[r].pc # "idle"

\* an add that takes out an ID that is already there
Add_Toggle(led, id) == IF id \in led THEN led \ {id} ELSE led \cup {id}

\* this.processedImages.add(id)
Add(led, id) == led \cup {id}

RECURSIVE AddAll(_, _)
\* ids.forEach(id => this.processedImages.add(id))
AddAll(led, ids) ==
    IF ids = {} THEN led
    ELSE LET id == CHOOSE x \in ids : TRUE
         IN  AddAll(Add(led, id), ids \ {id})

\* a filter that forgets the ledger
Unprocessed_NoLedger(led, i) == NameOf(i) \in {1, 2}

\* the filter of getUnprocessedImages: not in the ledger, and a camera file name
Unprocessed(led, i) == i \notin led /\ NameOf(i) \in {1, 2}

\* a guard that never holds a call back
Busy_Never(flag) == FALSE

\* the guard at the top of processLatestImages
Busy(flag) == flag

\* Promise.all in place of Promise.allSettled: one rejection loses every result
CollectResults_AllOrNothing(batch, out) ==
    IF \E k \in 1..Len(batch) : out[k] = "fail" THEN <<>> ELSE batch

\* the forEach over the settled promises: the results that are returned
CollectResults(batch, out) ==
    FilterSeq(batch, {batch[k] : k \in {j \in 1..Len(batch) : out[j] = "ok"}})

\* marking every image of the batch, whatever its outcome
MarkProcessed_All(batch, out) == Range(batch)

\* the forEach over the settled promises: the IDs marked as processed
MarkProcessed(batch, out) ==
    {batch[k] : k \in {j \in 1..Len(batch) : out[j] = "ok"}}

\* getUnprocessedImages up to its first await: seed only when the ledger is empty
ScanStart(kind, u, lim, led) ==
    [NoCall EXCEPT !.kind = kind, !.user = u, !.limit = lim,
                   !.pc = IF led = {} THEN "seed" ELSE "folders"]

\* the `catch` of getUnprocessedImages: log and return []
ScanCatch(c) == [c EXCEPT !.pc = "scanned", !.acc = <<>>, !.scanFailed = TRUE]

\* a processLatestImages call that found the service busy: return [] at once
SkippedCall(u, lim) ==
    [NoCall EXCEPT !.kind = "run", !.user = u, !.limit = lim, !.pc = "done",
                   !.status = "resolved", !.skipped = TRUE]

\* processLatestImages(u, lim) called into slot s, up to its first await
Invoke(s, u, lim) ==
    IF Busy(isProcessing)
    THEN /\ calls' = [calls EXCEPT ![s] = SkippedCall(u, lim)]
         /\ UNCHANGED isProcessing
    ELSE /\ calls' = [calls EXCEPT ![s] = [ScanStart("run", u, lim, processedImages)
                                             EXCEPT !.stale = calls[s].stale]]
         /\ isProcessing' = TRUE

\* LiveCameraFeed.processLatestImagesAutomatically: processLatestImages(uid, 5)
UiProcessLatest(s, u) ==
    /\ Free(s)
    /\ Invoke(s, u, 5)
    /\ UNCHANGED <<layout, detections, processedImages, pollingInterval, timers,
                   ingested, failedLast>>
    /\ UNCHANGED <<feedVars, pageVars>>

\* startAutoMonitoring(u): stop a running timer, process at once, arm a new timer
StartAutoMonitoring(s, u, id) ==
    /\ Free(s)
    /\ LET armed == {t \in timers : t[1] # pollingInterval}
       IN  /\ id \notin {t[1] : t \in armed}
           /\ timers' = armed \cup {<<id, u>>}
    /\ Invoke(s, u, BATCH_SIZE)
    /\ pollingInterval' = id
    /\ UNCHANGED <<layout, detections, processedImages, ingested, failedLast>>
    /\ UNCHANGED <<feedVars, pageVars>>

\* a stop that forgets clearInterval
StopAutoMonitoring_KeepsTimer ==
    /\ Quiet
    /\ pollingInterval # 0
    /\ pollingInterval' = 0
    /\ UNCHANGED <<layout, detections, processedImages, isProcessing, calls, timers,
                   ingested, failedLast>>
    /\ UNCHANGED <<feedVars, pageVars>>

\* stopAutoMonitoring()
StopAutoMonitoring ==
    /\ Quiet
    /\ pollingInterval # 0
    /\ timers' = {t \in timers : t[1] # pollingInterval}
    /\ pollingInterval' = 0
    /\ UNCHANGED <<layout, detections, processedImages, isProcessing, calls,
                   ingested, failedLast>>
    /\ UNCHANGED <<feedVars, pageVars>>

\* the setInterval callback of an armed timer
Tick(s, t) ==
    /\ Free(s)
    /\ t \in timers
    /\ Invoke(s, t[2], BATCH_SIZE)
    /\ UNCHANGED <<layout, detections, processedImages, pollingInterval, timers,
                   ingested, failedLast>>
    /\ UNCHANGED <<feedVars, pageVars>>

\* LiveCameraFeed.probeHasMore: getUnprocessedImages(uid, 1)
ProbeHasMore(s, u) ==
    /\ Free(s)
    /\ calls' = [calls EXCEPT ![s] = ScanStart("probe", u, 1, processedImages)]
    /\ UNCHANGED <<layout, detections, processedImages, isProcessing, pollingInterval,
                   timers, ingested, failedLast>>
    /\ UNCHANGED <<feedVars, pageVars>>

\* processNextBatch(u, page) up to its first await: getUnprocessedImages(u, BATCH_SIZE)
ProcessNextBatch(s, u) ==
    /\ Free(s)
    /\ calls' = [calls EXCEPT ![s] = ScanStart("next", u, BATCH_SIZE, processedImages)]
    /\ UNCHANGED <<layout, detections, processedImages, isProcessing, pollingInterval,
                   timers, ingested, failedLast>>
    /\ UNCHANGED <<feedVars, pageVars>>

\* a seeding that replaces the ledger
SeedReturn_Replaces(s, ok) ==
    /\ Quiet
    /\ calls[s].pc = "seed"
    /\ processedImages' =
           (IF ok THEN ListProcessedDriveIds(detections, calls[s].user) ELSE {})
    /\ calls' = [calls EXCEPT ![s].pc = "folders",
                              ![s].grew = (processedImages' # processedImages)]
    /\ UNCHANGED <<layout, detections, isProcessing, pollingInterval, timers,
                   ingested, failedLast>>
    /\ UNCHANGED <<feedVars, pageVars>>

\* getUnprocessedImages: listProcessedDriveIds answered (ok) or failed and gave an empty set
SeedReturn(s, ok) ==
    /\ Quiet
    /\ calls[s].pc = "seed"
    /\ processedImages' = AddAll(processedImages,
           (IF ok THEN ListProcessedDriveIds(detections, calls[s].user) ELSE {}))
    /\ calls' = [calls EXCEPT ![s].pc = "folders",
                              ![s].grew = (processedImages' # processedImages)]
    /\ UNCHANGED <<layout, detections, isProcessing, pollingInterval, timers,
                   ingested, failedLast>>
    /\ UNCHANGED <<feedVars, pageVars>>

\* one turn of the folder loop, after getImagesFromFolder has answered
ScanFolder(c, led) ==
    LET folderImages == Folders(layout)[c.fi]
        newImages    == FilterSeq(folderImages,
                                  {i \in Range(folderImages) : Unprocessed(led, i)})
        sorted       == SortByTimeDesc(layout, c.acc \o newImages)
        kept         == Take(sorted, c.limit)
        more         == c.fi + 1 <= Len(Folders(layout)) /\ Len(kept) < c.limit
    IN  [c EXCEPT !.acc = Take(kept, c.limit),
                  !.fi = c.fi + 1,
                  !.pc = IF more THEN "list" ELSE "scanned"]

\* getUnprocessedImages: getDateFolders answered and, when there are folders, so did
\* getImagesFromFolder for the newest one (ok), or one of the two threw.  The call
\* touches no shared state between the two awaits.
FoldersReturn(s, ok) ==
    /\ Quiet
    /\ calls[s].pc = "folders"
    /\ calls' = [calls EXCEPT ![s] =
           IF ~ok THEN ScanCatch(@)
           ELSE IF Folders(layout) = <<>> THEN [@ EXCEPT !.pc = "scanned", !.acc = <<>>]
           ELSE ScanFolder([@ EXCEPT !.fi = 1, !.acc = <<>>], processedImages)]
    /\ UNCHANGED <<layout, detections, processedImages, isProcessing, pollingInterval,
                   timers, ingested, failedLast>>
    /\ UNCHANGED <<feedVars, pageVars>>

\* getUnprocessedImages: getImagesFromFolder of an older folder answered (ok) or threw
ListReturn(s, ok) ==
    /\ Quiet
    /\ calls[s].pc = "list"
    /\ calls' = [calls EXCEPT ![s] =
           IF ok THEN ScanFolder(@, processedImages) ELSE ScanCatch(@)]
    /\ UNCHANGED <<layout, detections, processedImages, isProcessing, pollingInterval,
                   timers, ingested, failedLast>>
    /\ UNCHANGED <<feedVars, pageVars>>

\* processLatestImages after `await getUnprocessedImages`: nothing to do, or start
\* processIndividualImage for every image
RunScanned(s) ==
    /\ calls[s].pc = "scanned"
    /\ calls[s].kind = "run"
    /\ IF calls[s].acc = <<>>
       THEN /\ calls' = [calls EXCEPT ![s].pc = "done", ![s].status = "resolved",
                                      ![s].result = <<>>]
            /\ isProcessing' = FALSE
       ELSE /\ calls' = [calls EXCEPT ![s].pc = "items", ![s].batch = calls[s].acc,
                             ![s].out = [k \in 1..Len(calls[s].acc) |-> "pending"]]
            /\ UNCHANGED isProcessing
    /\ failedLast' = {}
    /\ UNCHANGED <<layout, detections, processedImages, pollingInterval, timers, ingested>>
    /\ UNCHANGED <<feedVars, pageVars>>

\* probeHasMore after `await getUnprocessedImages`: setHasMoreDisplay(next.length > 0)
ProbeScanned(s) ==
    /\ calls[s].pc = "scanned"
    /\ calls[s].kind = "probe"
    /\ calls' = [calls EXCEPT ![s].pc = "done", ![s].status = "resolved",
                              ![s].result = calls[s].acc]
    /\ UNCHANGED <<layout, detections, processedImages, isProcessing, pollingInterval,
                   timers, ingested, failedLast>>
    /\ UNCHANGED <<feedVars, pageVars>>

\* processNextBatch after `await getUnprocessedImages`: return [] or call
\* processLatestImages(u, nextImages.length)
NextScanned(s) ==
    /\ calls[s].pc = "scanned"
    /\ calls[s].kind = "next"
    /\ IF calls[s].acc = <<>>
       THEN /\ calls' = [calls EXCEPT ![s].pc = "done", ![s].status = "resolved",
                                      ![s].result = <<>>]
            /\ UNCHANGED isProcessing
       ELSE Invoke(s, calls[s].user, Len(calls[s].acc))
    /\ UNCHANGED <<layout, detections, processedImages, pollingInterval, timers,
                   ingested, failedLast>>
    /\ UNCHANGED <<feedVars, pageVars>>

\* the body of processLatestImages after `await Promise.allSettled`: collect the
\* fulfilled results, mark their IDs as processed, return; finally clear the busy flag
RunComplete(s, out) ==
    LET c == calls[s]
    IN  /\ processedImages' = AddAll(processedImages, MarkProcessed(c.batch, out))
        /\ ingested' = ingested \cup MarkProcessed(c.batch, out)
        /\ failedLast' = IF c.stale THEN {}
                         ELSE {c.batch[k] : k \in {j \in 1..Len(c.batch) : out[j] = "fail"}}
        /\ calls' = [calls EXCEPT ![s].pc = "done", ![s].status = "resolved",
                                  ![s].out = out,
                                  ![s].result = CollectResults(c.batch, out),
                                  ![s].marked = processedImages' \ processedImages]
        /\ isProcessing' = FALSE

\* processIndividualImage of one image settles: it fulfils after uploadImagesAndSave has
\* inserted the row, or it rejects (download, decode, inference, upload or insert failed).
\* When it is the last one, Promise.allSettled resolves and processLatestImages goes on.
ItemSettle(s, k, ok) ==
    /\ Quiet
    /\ calls[s].pc = "items"
    /\ k \in 1..Len(calls[s].batch)
    /\ calls[s].out[k] = "pending"
    /\ IF ok
       THEN /\ Len(detections) < MaxRows
            /\ detections' = Append(detections, LiveRow(calls[s].user, calls[s].batch[k]))
       ELSE UNCHANGED detections
    /\ LET out == [calls[s].out EXCEPT ![k] = IF ok THEN "ok" ELSE "fail"]
       IN  IF \A j \in 1..Len(out) : out[j] \in {"ok", "fail"}
           THEN RunComplete(s, out)
           ELSE /\ calls' = [calls EXCEPT ![s].out = out]
                /\ UNCHANGED <<processedImages, isProcessing, ingested, failedLast>>
    /\ UNCHANGED <<layout, pollingInterval, timers>>
    /\ UNCHANGED <<feedVars, pageVars>>

\* a remote call of processIndividualImage that has no timeout of its own (the download
\* from Drive, an upload, the insert) never answers for one image: its promise stays pending
ItemHang(s, k) ==
    /\ Quiet
    /\ calls[s].pc = "items"
    /\ k \in 1..Len(calls[s].batch)
    /\ calls[s].out[k] = "pending"
    /\ calls' = [calls EXCEPT ![s].out[k] = "hung"]
    /\ UNCHANGED <<layout, detections, processedImages, isProcessing, pollingInterval,
                   timers, ingested, failedLast>>
    /\ UNCHANGED <<feedVars, pageVars>>

\* the caller of a settled call takes the result (`const results = await ...`)
Return(s) ==
    /\ calls[s].pc = "done"
    /\ calls' = [calls EXCEPT ![s] = NoCall]
    /\ UNCHANGED <<layout, detections, processedImages, isProcessing, pollingInterval,
                   timers, ingested, failedLast>>
    /\ UNCHANGED <<feedVars, pageVars>>

\* the calls in flight when the ledger is cleared started under the old ledger
Outdated == [s \in Slots |-> IF calls[s].pc = "idle" THEN calls[s]
                                                    ELSE [calls[s] EXCEPT !.stale = TRUE]]

\* resetProcessedCache()
ResetProcessedCache ==
    /\ Quiet
    /\ processedImages # {}
    /\ processedImages' = {}
    /\ ingested' = {}
    /\ failedLast' = {}
    /\ calls' = Outdated
    /\ UNCHANGED <<layout, detections, isProcessing, pollingInterval, timers>>
    /\ UNCHANGED <<feedVars, pageVars>>

\* destroy(): stopAutoMonitoring() and clear the ledger
Destroy ==
    /\ Quiet
    /\ processedImages # {} \/ pollingInterval # 0
    /\ timers' = {t \in timers : t[1] # pollingInterval}
    /\ pollingInterval' = 0
    /\ processedImages' = {}
    /\ ingested' = {}
    /\ failedLast' = {}
    /\ calls' = Outdated
    /\ UNCHANGED <<layout, detections, isProcessing>>
    /\ UNCHANGED <<feedVars, pageVars>>

\* the values of the render a handler closed over (uid: currentUser.uid of that render)
MountClosure ==
    [seen |-> {}, cache |-> <<>>, folders |-> 0, folderIndex |-> 0, model |-> FALSE,
     fallback |-> FALSE, page |-> 0, uid |-> "u1"]

\* a thread slot that holds no handler invocation
NoThread ==
    [op |-> "none", pc |-> "idle", stack |-> <<>>, cl |-> MountClosure,
     working |-> <<>>, batch |-> <<>>, items |-> <<>>, append |-> FALSE, nextPage |-> 0,
     anySaved |-> FALSE]

NoRequest == [op |-> "none", page |-> 0]
NoReply   == [user |-> "none", size |-> 0, page |-> 0, ok |-> FALSE, items |-> <<>>,
              hasMore |-> FALSE]

\* the state of a LiveCameraFeed that is not on screen
FeedUnmounted ==
    /\ detectionHistory = <<>>
    /\ isLoadingPage = FALSE
    /\ isDriveFallback = FALSE
    /\ processedDriveIds = {}
    /\ driveCache = <<>>
    /\ driveFolders = 0
    /\ driveFolderIndex = 0
    /\ drivePage = 0
    /\ isModelLoaded = FALSE
    /\ isAutoProcessing = FALSE
    /\ hasMoreDisplay = TRUE
    /\ supabasePage = 0
    /\ supabaseHasMore = FALSE
    /\ driveHasMore = FALSE
    /\ fetchable = {}
    /\ threads = [t \in {} |-> NoThread]
    /\ request = NoRequest
    /\ reply = NoReply
    /\ started = 0
    /\ issued = {}
    /\ repeated = FALSE

\* rows a previous session, or another writer of the table, may have left in the store
InitialStores ==
    {<<>>} \cup {<<LiveRow(u, i)>> : u \in Users, i \in {1}}
           \cup {<<ListedRow(u, i)>> : u \in Users, i \in {1}}

\* a LiveMonitoringService as its constructor leaves it
ServiceNew ==
    /\ processedImages = {}
    /\ isProcessing = FALSE
    /\ pollingInterval = 0
    /\ timers = {}
    /\ calls = [s \in Slots |-> NoCall]
    /\ ingested = {}
    /\ failedLast = {}

SvcInit ==
    /\ layout \in Layouts
    /\ detections \in InitialStores
    /\ ServiceNew
    /\ FeedUnmounted

SvcNext ==
    \/ \E s \in Slots, u \in Users : UiProcessLatest(s, u)
    \/ \E s \in Slots, u \in Users, id \in 1..MaxTimers : StartAutoMonitoring(s, u, id)
    \/ StopAutoMonitoring
    \/ \E s \in Slots, t \in timers : Tick(s, t)
    \/ \E s \in Slots, u \in Users : ProbeHasMore(s, u)
    \/ \E s \in Slots, u \in Users : ProcessNextBatch(s, u)
    \/ \E s \in Slots, ok \in BOOLEAN : SeedReturn(s, ok)
    \/ \E s \in Slots, ok \in BOOLEAN : FoldersReturn(s, ok)
    \/ \E s \in Slots, ok \in BOOLEAN : ListReturn(s, ok)
    \/ \E s \in Slots : RunScanned(s)
    \/ \E s \in Slots : ProbeScanned(s)
    \/ \E s \in Slots : NextScanned(s)
    \/ \E s \in Slots, k \in 1..NumImages, ok \in BOOLEAN : ItemSettle(s, k, ok)
    \/ \E s \in Slots : Return(s)
    \/ ResetProcessedCache
    \/ Destroy

Spec == SvcInit /\ [][SvcNext]_vars

\* the service on the archive "long"
ArchiveInit ==
    /\ layout = "long"
    /\ detections \in InitialStores
    /\ ServiceNew
    /\ FeedUnmounted

SpecArchive == ArchiveInit /\ [][SvcNext]_vars

\* ---- the polling loop on its own, with remote calls that may never answer ----
MonitorNext ==
    \/ \E s \in Slots, u \in Users, id \in 1..MaxTimers : StartAutoMonitoring(s, u, id)
    \/ StopAutoMonitoring
    \/ \E s \in Slots, t \in timers : Tick(s, t)
    \/ \E s \in Slots, ok \in BOOLEAN : SeedReturn(s, ok)
    \/ \E s \in Slots, ok \in BOOLEAN : FoldersReturn(s, ok)
    \/ \E s \in Slots, ok \in BOOLEAN : ListReturn(s, ok)
    \/ \E s \in Slots : RunScanned(s)
    \/ \E s \in Slots, k \in 1..NumImages, ok \in BOOLEAN : ItemSettle(s, k, ok)
    \/ \E s \in Slots, k \in 1..NumImages : ItemHang(s, k)
    \/ \E s \in Slots : Return(s)

\* a remote call that answers does so in the end, and the event loop runs every
\* continuation that is ready, however often a timer or a caller gets in between; timers
\* and callers are free to act or not
MonitorFair ==
    \A s \in Slots :
        /\ SF_vars(\E ok \in BOOLEAN : SeedReturn(s, ok))
        /\ SF_vars(\E ok \in BOOLEAN : FoldersReturn(s, ok))
        /\ SF_vars(\E ok \in BOOLEAN : ListReturn(s, ok))
        /\ SF_vars(RunScanned(s))
        /\ SF_vars(\E k \in 1..NumImages, ok \in BOOLEAN : ItemSettle(s, k, ok))
        /\ SF_vars(Return(s))

SpecMonitor == SvcInit /\ [][MonitorNext]_vars /\ MonitorFair

\* ---- two users, one after the other, on the one service of the page ----
TwoUsers == {"u1", "u2"}

\* the user who is signed in
Session(u) == [op |-> "session", user |-> u]

\* the store when the first user signs in
UserStores ==
    {<<>>} \cup {<<LiveRow(u, i)>> : u \in TwoUsers, i \in {1}}
           \cup {<<ListedRow(u, i)>> : u \in TwoUsers, i \in {1}}

\* another user signs in: the effect of LiveCameraFeed that depends on currentUser.uid
\* is cleaned up, which calls destroy(), and runs again for the new user
SwitchUser(u) ==
    /\ Quiet
    /\ request.user # u
    /\ request' = Session(u)
    /\ timers' = {t \in timers : t[1] # pollingInterval}
    /\ pollingInterval' = 0
    /\ processedImages' = {}
    /\ ingested' = {}
    /\ failedLast' = {}
    /\ calls' = Outdated
    /\ UNCHANGED <<layout, detections, isProcessing>>
    /\ UNCHANGED <<feedVars, supabasePage, supabaseHasMore, driveHasMore, reply>>

UsersInit ==
    /\ layout \in Layouts
    /\ detections \in UserStores
    /\ ServiceNew
    /\ detectionHistory = <<>>
    /\ isLoadingPage = FALSE
    /\ isDriveFallback = FALSE
    /\ processedDriveIds = {}
    /\ driveCache = <<>>
    /\ driveFolders = 0
    /\ driveFolderIndex = 0
    /\ drivePage = 0
    /\ isModelLoaded = FALSE
    /\ isAutoProcessing = FALSE
    /\ hasMoreDisplay = TRUE
    /\ supabasePage = 0
    /\ supabaseHasMore = FALSE
    /\ driveHasMore = FALSE
    /\ fetchable = {}
    /\ threads = [t \in {} |-> NoThread]
    /\ request = Session("u1")
    /\ reply = NoReply
    /\ started = 0
    /\ issued = {}
    /\ repeated = FALSE

UsersNext ==
    \/ \E s \in Slots : UiProcessLatest(s, request.user)
    \/ \E s \in Slots : ProbeHasMore(s, request.user)
    \/ \E s \in Slots, ok \in BOOLEAN : SeedReturn(s, ok)
    \/ \E s \in Slots, ok \in BOOLEAN : FoldersReturn(s, ok)
    \/ \E s \in Slots, ok \in BOOLEAN : ListReturn(s, ok)
    \/ \E s \in Slots : RunScanned(s)
    \/ \E s \in Slots : ProbeScanned(s)
    \/ \E s \in Slots, k \in 1..NumImages, ok \in BOOLEAN : ItemSettle(s, k, ok)
    \/ \E s \in Slots : Return(s)
    \/ \E u \in TwoUsers : SwitchUser(u)

SpecUsers == UsersInit /\ [][UsersNext]_vars

----------------------------------------------------------------------------
\* AnalysisSupabaseService.listUserAnalysesPaged, and the feed that pages through the
\* persisted store before it falls back to the archive (loadSupabaseHistoryPage,
\* handleShowMore, loadDriveImages)

\* Bounds of the model
MaxStore         == 16   \* rows of the detections table in the paged feed
MaxPageSize      == 10   \* page sizes asked of listUserAnalysesPaged
MaxPage          == 2    \* page numbers asked of listUserAnalysesPaged
MaxFallbackLoads == 2    \* loadDriveImages calls of one session

\* Program constants
PAGE_SIZE == 10          \* listUserAnalysesPaged(uid, 10, page, { type: 'live' })

Viewer == "u1"           \* currentUser.uid

\* a detections table of n rows, oldest first; with mix, every fourth row belongs to
\* another user and every fourth row is not a live detection
StoreOf(n, mix) ==
    [i \in 1..n |->
        [user   |-> IF mix /\ i % 4 = 0 THEN "u2" ELSE "u1",
         type   |-> IF mix /\ i % 4 = 2 THEN "manual" ELSE "live",
         origin |-> IF i <= NumImages THEN i ELSE 0,
         flat   |-> (i % 2 = 1),
         camera |-> 1]]

PagedStores == {StoreOf(n, mix) : n \in 0..MaxStore, mix \in BOOLEAN}

RECURSIVE MatchingDesc(_, _, _, _)
\* .eq('firebase_user_id', u).eq('type', type).order('created_at', { ascending: false }):
\* the ids (positions in the table) of the matching rows among the first k, newest first
MatchingDesc(rows, u, type, k) ==
    IF k = 0 THEN <<>>
    ELSE (IF rows[k].user = u /\ rows[k].type = type THEN <<k>> ELSE <<>>)
         \o MatchingDesc(rows, u, type, k - 1)

\* .range(from, to): the rows at offsets from..to (inclusive, from 0) of the result
RangeOf(matched, from, to) ==
    LET last == IF to + 1 < Len(matched) THEN to + 1 ELSE Len(matched)
    IN  [k \in 1..(IF last > from THEN last - from ELSE 0) |-> matched[from + k]]

\* an inclusive `to` taken for the number of rows read
HasMoreOf_Inclusive(to, count) == to < count

\* hasMore = (to + 1) < count, count being the exact count of matching rows
HasMoreOf(to, count) == (to + 1) < count

\* what listUserAnalysesPaged returns when the query fails
FailedListing == [items |-> <<>>, hasMore |-> FALSE]

\* listUserAnalysesPaged(u, pageSize, page, { type }) when the query succeeds
ListUserAnalysesPaged(rows, u, pageSize, page, type) ==
    LET from    == page * pageSize
        to      == from + pageSize - 1
        matched == MatchingDesc(rows, u, type, Len(rows))
    IN  [items |-> RangeOf(matched, from, to), hasMore |-> HasMoreOf(to, Len(matched))]

\* items.map(it => ({ id: it.id, historyId: `sb_${it.id}`, ... })): a persisted entry
MapItem(rows, id) == [kind |-> "sb", id |-> id, origin |-> rows[id].origin, pending |-> FALSE]

\* a placeholder that already shows a classification
Placeholder_Classified(i) == [kind |-> "drive", id |-> i, origin |-> i, pending |-> FALSE]

\* a placeholder entry for a Drive image: id `drive_${img.id}`, detection 'Processing...'
Placeholder(i) == [kind |-> "drive", id |-> i, origin |-> i, pending |-> TRUE]

\* canShowMore, and the button's `disabled`
CanShowMore ==
    supabaseHasMore \/ driveHasMore \/ (~isDriveFallback /\ detectionHistory # <<>>)

\* loadSupabaseHistoryPage after `await listUserAnalysesPaged` (and, for page 0 with no
\* processed IDs known, after `await listProcessedDriveIds`)
LoadSupabaseReturn(ok, seedOk) ==
    /\ request.op = "supabase"
    /\ LET r      == IF ok THEN ListUserAnalysesPaged(detections, Viewer, PAGE_SIZE,
                                                      request.page, "live")
                           ELSE FailedListing
           mapped == [k \in 1..Len(r.items) |-> MapItem(detections, r.items[k])]
       IN  /\ reply' = [user |-> Viewer, size |-> PAGE_SIZE, page |-> request.page,
                        ok |-> ok, items |-> r.items, hasMore |-> r.hasMore]
           /\ detectionHistory' = IF request.page = 0 THEN mapped
                                  ELSE detectionHistory \o mapped
           /\ supabaseHasMore' = r.hasMore
           /\ supabasePage' = request.page
    /\ processedDriveIds' =
           IF request.page = 0 /\ processedDriveIds = {} /\ seedOk
           THEN ListProcessedDriveIds(detections, Viewer)
           ELSE processedDriveIds
    /\ isLoadingPage' = FALSE
    /\ request' = NoRequest
    /\ UNCHANGED <<svcVars, isDriveFallback, driveCache, driveFolders, driveFolderIndex,
                   drivePage, isModelLoaded, isAutoProcessing, hasMoreDisplay, fetchable,
                   threads, started, issued, repeated, driveHasMore>>

\* handleShowMore up to its first await
HandleShowMore ==
    /\ detectionHistory # <<>>
    /\ CanShowMore /\ ~isLoadingPage
    /\ isLoadingPage' = TRUE
    /\ IF ~isDriveFallback /\ supabaseHasMore
       THEN /\ request' = [op |-> "supabase", page |-> supabasePage + 1]
            /\ UNCHANGED <<isDriveFallback, started>>
       ELSE /\ started < MaxFallbackLoads
            /\ isDriveFallback' = TRUE
            /\ request' = [op |-> "drive", page |-> 0]
            /\ started' = started + 1
    /\ UNCHANGED <<svcVars, detectionHistory, processedDriveIds, driveCache, driveFolders,
                   driveFolderIndex, drivePage, isModelLoaded, isAutoProcessing,
                   hasMoreDisplay, fetchable, threads, issued, repeated, supabasePage,
                   supabaseHasMore, driveHasMore, reply>>

RECURSIVE DriveLoop(_, _, _, _, _)
\* the while loop of loadDriveImages: list the folder at the cursor, add its new images to
\* the cache, take the first targetBatch unprocessed images of the cache, move the cursor
\* on; `left` listings answer before one throws
DriveLoop(cache, unprocessed, index, nFolders, left) ==
    IF Len(unprocessed) < targetBatch /\ index < nFolders
    THEN IF left = 0
         THEN [failed |-> TRUE, cache |-> cache, unprocessed |-> unprocessed,
               index |-> index]
         ELSE LET page == Folders(layout)[index + 1]
                  c2   == cache \o FilterSeq(page, Range(page) \ Range(cache))
              IN  DriveLoop(c2, Take(FilterSeq(c2, Range(c2) \ processedDriveIds), targetBatch),
                            index + 1, nFolders, left - 1)
    ELSE [failed |-> FALSE, cache |-> cache, unprocessed |-> unprocessed, index |-> index]

\* what loadDriveImages(false) finds when the first `answers` calls to the archive answer
\* and the next one throws: getDateFolders (only when no folder is known) and the loop
DriveScan(answers) ==
    LET needFolders == driveFolders = 0
        nFolders    == IF needFolders THEN Len(Folders(layout)) ELSE driveFolders
        left        == IF needFolders THEN answers - 1 ELSE answers
    IN  [foldersOk |-> ~needFolders \/ answers > 0,
         nFolders  |-> nFolders,
         loop      |-> DriveLoop(driveCache, <<>>, driveFolderIndex, nFolders,
                                 IF left < 0 THEN 0 ELSE left)]

\* loadDriveImages(false) from start to end (the model is not loaded, so no detection runs)
LoadDriveReturn(answers) ==
    /\ request.op = "drive"
    /\ LET scan  == DriveScan(answers)
           out   == scan.loop
           valid == FilterSeq(out.unprocessed, fetchable)
       IN  IF ~scan.foldersOk \/ scan.nFolders = 0
           THEN /\ driveHasMore' = FALSE
                /\ UNCHANGED <<detectionHistory, driveCache, driveFolders, driveFolderIndex>>
           ELSE /\ driveFolders' = scan.nFolders
                /\ driveFolderIndex' = out.index
                /\ IF out.failed
                   THEN /\ driveHasMore' = FALSE
                        /\ UNCHANGED <<detectionHistory, driveCache>>
                   ELSE /\ driveCache' = out.cache
                        /\ driveHasMore' = (out.index < scan.nFolders - 1)
                        /\ detectionHistory' = detectionHistory \o
                               [k \in 1..Len(valid) |-> Placeholder(valid[k])]
    /\ isLoadingPage' = FALSE
    /\ request' = NoRequest
    /\ UNCHANGED <<svcVars, isDriveFallback, processedDriveIds, drivePage, isModelLoaded,
                   isAutoProcessing, hasMoreDisplay, fetchable, threads, started, issued,
                   repeated, supabasePage, supabaseHasMore, reply>>

\* a caller asks listUserAnalysesPaged(u, pageSize, page, { type: 'live' }) while the
\* feed's first page is on its way
Query(u, pageSize, page, ok) ==
    /\ request = [op |-> "supabase", page |-> 0]
    /\ LET r == IF ok THEN ListUserAnalysesPaged(detections, u, pageSize, page, "live")
                      ELSE FailedListing
       IN  reply' = [user |-> u, size |-> pageSize, page |-> page, ok |-> ok,
                     items |-> r.items, hasMore |-> r.hasMore]
    /\ UNCHANGED <<svcVars, feedVars, supabasePage, supabaseHasMore, driveHasMore, request>>

\* the paged feed right after mount: loadSupabaseHistoryPage(uid, 0) is in flight
PageInit ==
    /\ layout \in Layouts \cup {"full"}
    /\ detections \in PagedStores
    /\ ServiceNew
    /\ detectionHistory = <<>>
    /\ isLoadingPage = TRUE
    /\ isDriveFallback = FALSE
    /\ processedDriveIds = {}
    /\ driveCache = <<>>
    /\ driveFolders = 0
    /\ driveFolderIndex = 0
    /\ drivePage = 0
    /\ isModelLoaded = FALSE
    /\ isAutoProcessing = FALSE
    /\ hasMoreDisplay = TRUE
    /\ supabasePage = 0
    /\ supabaseHasMore = FALSE
    /\ driveHasMore = FALSE
    /\ fetchable = Images
    /\ threads = [t \in {} |-> NoThread]
    /\ request = [op |-> "supabase", page |-> 0]
    /\ reply = NoReply
    /\ started = 0
    /\ issued = {}
    /\ repeated = FALSE

PageNext ==
    \/ \E ok \in BOOLEAN, seedOk \in BOOLEAN : LoadSupabaseReturn(ok, seedOk)
    \/ HandleShowMore
    \/ \E answers \in 0..(NumImages + 1) : LoadDriveReturn(answers)
    \/ \E u \in {"u1", "u2"}, pageSize \in 1..MaxPageSize, page \in 0..MaxPage,
          ok \in BOOLEAN : Query(u, pageSize, page, ok)

SpecPage == PageInit /\ [][PageNext]_vars

----------------------------------------------------------------------------
\* LiveCameraFeed: loadCloudHistoryPage, loadDriveRecent, detectAndPersistForDriveItems,
\* runPendingDetections, processLatestImagesAutomatically, probeHasMore and Show More.
\* A handler invocation is a thread; it reads the React state of the render that created
\* it (its closure) and writes the current state.  The awaits of consecutive archive
\* listings are taken in one step; the code that runs without an await after a step is
\* taken in the steps "select" and "return", which no other handler can interleave.
\* Folders hold fewer images than one listing page, so nextPageToken is always null.

\* Bounds of the model
MaxThreads == 2     \* handler invocations in flight at once
MaxCalls   == 3     \* handler invocations of one session
MaxDepth   == 3     \* nested awaits of one invocation

Threads == 1..MaxThreads

\* no handler is in the middle of code that runs without an await
Settled == \A t \in Threads : threads[t].pc \notin {"select", "return"}

FreeThreads == {t \in Threads : threads[t].op = "none"}
FirstFree(T) == CHOOSE t \in T : \A r \in T : t <= r

\* the render a handler created now closes over
Closure ==
    [seen |-> processedDriveIds, cache |-> driveCache, folders |-> driveFolders,
     folderIndex |-> driveFolderIndex, model |-> isModelLoaded,
     fallback |-> isDriveFallback, page |-> drivePage, uid |-> Viewer]

\* countUnseen(arr)
CountUnseen(arr, seen) == Len(FilterSeq(arr, Range(arr) \ seen))

\* a loop that steps over the folder behind the cursor
Accumulate_Skip(working, folderIndex, nFolders, seen) ==
    IF CountUnseen(working, seen) < DRIVE_BATCH_SIZE /\ folderIndex + 2 < nFolders
    THEN [working |-> working \o Folders(layout)[folderIndex + 3],
          folderIndex |-> folderIndex + 2]
    ELSE [working |-> working, folderIndex |-> folderIndex]

RECURSIVE Accumulate(_, _, _, _)
\* the loop over older folders: until DRIVE_BATCH_SIZE unseen images or the last folder
Accumulate(working, folderIndex, nFolders, seen) ==
    IF CountUnseen(working, seen) < DRIVE_BATCH_SIZE /\ nFolders > 0
          /\ folderIndex + 1 < nFolders
    THEN Accumulate(working \o Folders(layout)[folderIndex + 2], folderIndex + 1,
                    nFolders, seen)
    ELSE [working |-> working, folderIndex |-> folderIndex]

\* loadDriveRecent has to await the archive before it can select its batch
NeedsListing(cl) ==
    \/ cl.cache = <<>>
    \/ /\ CountUnseen(cl.cache, cl.seen) < DRIVE_BATCH_SIZE
       /\ cl.folders > 0 /\ cl.folderIndex + 1 < cl.folders

\* the batch of loadDriveRecent: the first DRIVE_BATCH_SIZE images that are not in `seen`
SelectBatch(working, seen) ==
    Take(FilterSeq(working, Range(working) \ seen), DRIVE_BATCH_SIZE)

\* `nextPage === 0 && mapped.length === 0` always taken for false
FallsBack_Never(nextPage, n) == FALSE

\* loadCloudHistoryPage: `if (nextPage === 0 && mapped.length === 0) await loadDriveRecent(0)`
FallsBack(nextPage, n) == nextPage = 0 /\ n = 0

\* loadDriveRecent(nextDrivePage, { append }) up to its first await
DriveStart(th, append, nextDrivePage) ==
    [th EXCEPT !.append = append, !.nextPage = nextDrivePage, !.working = th.cl.cache,
               !.pc = IF NeedsListing(th.cl) THEN "scan" ELSE "select"]

\* loadCloudHistoryPage awaiting loadDriveRecent(0) and loadDriveRecent awaiting
\* loadCloudHistoryPage(uid, 0) on an empty batch leave the same thing to do on return,
\* `finally { setIsLoadingPage(false) }`: a frame that repeats the one under the top frame
\* of these two is the same continuation once more
Folds(frame, stack) ==
    /\ Len(stack) >= 2
    /\ stack[2] = frame
    /\ {frame, stack[1]} = {"cloud", "driveEmpty"}

\* a caller awaits a callee: push the caller's frame; at the nesting bound a repeating
\* frame is folded into its earlier copy, and any other invocation is given up
Await(th, frame, callee) ==
    IF Len(th.stack) < MaxDepth
    THEN [callee EXCEPT !.stack = <<frame>> \o th.stack]
    ELSE IF Folds(frame, th.stack)
    THEN [callee EXCEPT !.stack = Tail(th.stack)]
    ELSE [callee EXCEPT !.pc = "cut"]

\* loadCloudHistoryPage(uid, 0) after `await listUserAnalysesPaged(uid, 10, 0, ...)`
CloudListed(t, ok) ==
    /\ Settled
    /\ threads[t].pc = "list"
    /\ LET th     == threads[t]
           r      == IF ok THEN ListUserAnalysesPaged(detections, th.cl.uid, PAGE_SIZE, 0,
                                                       "live")
                           ELSE FailedListing
           mapped == [k \in 1..Len(r.items) |-> MapItem(detections, r.items[k])]
       IN  /\ reply' = [user |-> th.cl.uid, size |-> PAGE_SIZE, page |-> 0, ok |-> ok,
                        items |-> r.items, hasMore |-> r.hasMore]
           /\ detectionHistory' = mapped
           /\ IF FallsBack(0, Len(mapped))
              THEN LET next == Await(th, "cloud", DriveStart(th, FALSE, 0))
                   IN  /\ threads' = [threads EXCEPT ![t] = next]
                       /\ isLoadingPage' = TRUE
                       /\ isDriveFallback' = (next.pc # "cut" \/ isDriveFallback)
              ELSE /\ threads' = [threads EXCEPT ![t].pc = "return"]
                   /\ isDriveFallback' = FALSE
                   /\ isLoadingPage' = FALSE
    /\ UNCHANGED <<svcVars, processedDriveIds, driveCache, driveFolders, driveFolderIndex,
                   drivePage, isModelLoaded, isAutoProcessing, hasMoreDisplay, fetchable,
                   started, issued, repeated, supabasePage, supabaseHasMore, driveHasMore,
                   request>>

\* loadDriveRecent after its listing awaits: getDateFolders and the newest folder's page when
\* the cache was empty (then also listProcessedDriveIds when no processed ID was known),
\* and the pages of older folders; ok = none of the listings threw
DriveScanned(t, ok, seedOk) ==
    /\ Settled
    /\ threads[t].pc = "scan"
    /\ LET th    == threads[t]
           cl    == th.cl
           fresh == cl.cache = <<>>
           nf    == IF fresh THEN Len(Folders(layout)) ELSE cl.folders
       IN  IF ~ok
           THEN /\ isDriveFallback' = FALSE
                /\ isLoadingPage' = FALSE
                /\ threads' = [threads EXCEPT ![t].pc = "return"]
                /\ UNCHANGED <<detectionHistory, processedDriveIds, driveCache, driveFolders,
                               driveFolderIndex, issued>>
           ELSE IF nf = 0
           THEN /\ detectionHistory' = <<>>
                /\ isLoadingPage' = FALSE
                /\ threads' = [threads EXCEPT ![t].pc = "return"]
                /\ UNCHANGED <<isDriveFallback, processedDriveIds, driveCache, driveFolders,
                               driveFolderIndex, issued>>
           ELSE LET acc == IF fresh
                           THEN Accumulate(Folders(layout)[1], 0, nf, cl.seen)
                           ELSE Accumulate(cl.cache, cl.folderIndex, nf, cl.seen)
                IN  /\ processedDriveIds' =
                           IF fresh /\ cl.seen = {}
                           THEN (IF seedOk THEN ListProcessedDriveIds(detections, cl.uid)
                                           ELSE {})
                           ELSE processedDriveIds
                    /\ issued' = IF processedDriveIds' # processedDriveIds THEN {} ELSE issued
                    /\ driveCache' = IF Len(acc.working) # Len(cl.cache) THEN acc.working
                                     ELSE driveCache
                    /\ driveFolders' = IF fresh THEN nf ELSE driveFolders
                    /\ driveFolderIndex' = IF acc.folderIndex # cl.folderIndex
                                           THEN acc.folderIndex ELSE driveFolderIndex
                    /\ threads' = [threads EXCEPT ![t].working = acc.working,
                                                  ![t].pc = "select"]
                    /\ UNCHANGED <<detectionHistory, isLoadingPage, isDriveFallback>>
    /\ UNCHANGED <<svcVars, drivePage, isModelLoaded, isAutoProcessing, hasMoreDisplay,
                   fetchable, started, repeated, pageVars>>

\* loadDriveRecent: select the batch; with an empty batch leave fallback mode and
\* `await loadCloudHistoryPage(uid, 0)`, else start the downloads
DriveSelect(t) ==
    /\ threads[t].pc = "select"
    /\ LET th    == threads[t]
           batch == SelectBatch(th.working, th.cl.seen)
       IN  /\ issued' = issued \cup Range(batch)
           /\ repeated' = (repeated \/ Range(batch) \cap issued # {})
           /\ IF batch = <<>>
              THEN /\ isDriveFallback' = FALSE
                   /\ isLoadingPage' = TRUE
                   /\ threads' = [threads EXCEPT ![t] =
                          Await(th, "driveEmpty", [th EXCEPT !.batch = batch, !.pc = "list"])]
              ELSE /\ threads' = [threads EXCEPT ![t].batch = batch, ![t].pc = "fetch"]
                   /\ UNCHANGED <<isDriveFallback, isLoadingPage>>
    /\ UNCHANGED <<svcVars, detectionHistory, processedDriveIds, driveCache,
                   driveFolders, driveFolderIndex, drivePage, isModelLoaded,
                   isAutoProcessing, hasMoreDisplay, fetchable, started, pageVars>>

\* loadDriveRecent after `await Promise.all(batch.map(getImageAsDataUrl ...))`: show the
\* placeholders of the images that could be fetched; with a loaded model (as the closure
\* saw it) `await detectAndPersistForDriveItems(batchPrepared)`
DriveFetched(t) ==
    /\ Settled
    /\ threads[t].pc = "fetch"
    /\ LET th       == threads[t]
           prepared == FilterSeq(th.batch, fetchable)
           shown    == [k \in 1..Len(prepared) |-> Placeholder(prepared[k])]
       IN  /\ detectionHistory' =
                  IF prepared = <<>> THEN detectionHistory
                  ELSE IF th.append THEN detectionHistory \o shown ELSE shown
           /\ drivePage' = th.nextPage
           /\ IF prepared # <<>> /\ th.cl.model
              THEN /\ threads' = [threads EXCEPT ![t] =
                          Await(th, "driveDetect",
                                [th EXCEPT !.items = prepared, !.pc = "detect"])]
                   /\ UNCHANGED isLoadingPage
              ELSE /\ threads' = [threads EXCEPT ![t].pc = "return"]
                   /\ isLoadingPage' = FALSE
    /\ UNCHANGED <<svcVars, isDriveFallback, processedDriveIds, driveCache, driveFolders,
                   driveFolderIndex, isModelLoaded, isAutoProcessing, hasMoreDisplay,
                   fetchable, started, issued, repeated, pageVars>>

\* a map that forgets to compare the id: every placeholder is taken for classified
UpdateItems_All(h, detected) ==
    [k \in 1..Len(h) |->
        IF h[k].kind = "drive" /\ detected # {} THEN [h[k] EXCEPT !.pending = FALSE]
        ELSE h[k]]

\* setDetectionHistory(prev => prev.map(it => (it.id === item.id ? updated : it))) for
\* every classified item
UpdateItems(h, detected) ==
    [k \in 1..Len(h) |->
        IF h[k].kind = "drive" /\ h[k].id \in detected THEN [h[k] EXCEPT !.pending = FALSE]
        ELSE h[k]]

\* detectAndPersistForDriveItems after `await Promise.allSettled(tasks)`: the items of
\* `detected` were classified (their entries are updated), those of `saved` were also
\* persisted by uploadImagesAndSave; when any was classified, leave fallback mode and
\* `await loadCloudHistoryPage(uid, 0)`
DetectSettled(t, detected, saved) ==
    /\ Settled
    /\ threads[t].pc = "detect"
    /\ detected \subseteq Range(threads[t].items)
    /\ saved \subseteq detected
    /\ saved = {} \/ Len(detections) + Cardinality(saved) <= MaxRows
    /\ LET th   == threads[t]
           rows == FilterSeq(th.items, saved)
       IN  /\ detectionHistory' = UpdateItems(detectionHistory, detected)
           /\ detections' = detections \o
                                 [k \in 1..Len(rows) |-> LiveRow(th.cl.uid, rows[k])]
           /\ IF detected # {}
              THEN /\ isDriveFallback' = FALSE
                   /\ isLoadingPage' = TRUE
                   /\ threads' = [threads EXCEPT ![t] =
                          Await(th, "detect", [th EXCEPT !.anySaved = TRUE, !.pc = "list"])]
              ELSE /\ threads' = [threads EXCEPT ![t].anySaved = FALSE, ![t].pc = "return"]
                   /\ UNCHANGED <<isDriveFallback, isLoadingPage>>
    /\ UNCHANGED <<layout, processedImages, isProcessing, pollingInterval, timers, calls,
                   ingested, failedLast, processedDriveIds, driveCache, driveFolders,
                   driveFolderIndex, drivePage, isModelLoaded, isAutoProcessing,
                   hasMoreDisplay, fetchable, started, issued, repeated, pageVars>>

\* a callee has returned: the awaiting caller runs on to its next await or to its end
Unwind(t) ==
    /\ threads[t].pc = "return"
    /\ LET th    == threads[t]
           frame == IF th.stack = <<>> THEN "none" ELSE Head(th.stack)
       IN  /\ threads' = [threads EXCEPT ![t] =
                  IF frame = "none" THEN NoThread
                  ELSE [th EXCEPT !.stack = Tail(th.stack),
                                  !.pc = IF frame = "show" THEN "probe" ELSE "return"]]
           \* `finally { setIsLoadingPage(false) }` of loadCloudHistoryPage, loadDriveRecent
           /\ isLoadingPage' =
                  IF frame \in {"cloud", "driveEmpty", "driveDetect"} THEN FALSE
                  ELSE isLoadingPage
           \* loadDriveRecent after `await detectAndPersistForDriveItems`: mark processed
           /\ processedDriveIds' =
                  IF frame = "driveDetect" THEN th.cl.seen \cup Range(th.batch)
                  ELSE processedDriveIds
           /\ issued' = IF processedDriveIds' # processedDriveIds THEN {} ELSE issued
           \* `finally { setIsAutoProcessing(false) }` of processLatestImagesAutomatically
           /\ isAutoProcessing' = IF frame = "auto" THEN FALSE ELSE isAutoProcessing
           \* Show More after `await loadCloudHistoryPage`: setDrivePage(prev => prev + 1)
           /\ drivePage' = IF frame = "show" THEN drivePage + 1 ELSE drivePage
    /\ UNCHANGED <<svcVars, detectionHistory, isDriveFallback, driveCache, driveFolders,
                   driveFolderIndex, isModelLoaded, hasMoreDisplay, fetchable, started,
                   repeated, pageVars>>

\* ---- the calls into LiveMonitoringService, each taken as one step ----
\* getUnprocessedImages seeds an empty ledger from the store (an empty set on failure)
SeededLedger(seedOk) ==
    IF processedImages = {}
    THEN (IF seedOk THEN ListProcessedDriveIds(detections, Viewer) ELSE {})
    ELSE processedImages

RECURSIVE ScanAll(_, _)
ScanAll(c, led) == IF c.pc = "scanned" THEN c.acc ELSE ScanAll(ScanFolder(c, led), led)

\* getUnprocessedImages(uid, limit) with ledger led; [] when a listing threw
GetUnprocessedImages(led, limit, scanOk) ==
    IF ~scanOk \/ Folders(layout) = <<>> THEN <<>>
    ELSE ScanAll(ScanFolder([NoCall EXCEPT !.limit = limit, !.fi = 1], led), led)

\* processLatestImages(uid, limit) from start to end: the images of okset are ingested
ServiceRun(limit, seedOk, scanOk, okset) ==
    LET led  == SeededLedger(seedOk)
        scan == GetUnprocessedImages(led, limit, scanOk)
        out  == [k \in 1..Len(scan) |-> IF scan[k] \in okset THEN "ok" ELSE "fail"]
        done == CollectResults(scan, out)
    IN  /\ okset \subseteq Range(scan) \cap fetchable
        /\ okset = {} \/ Len(detections) + Cardinality(okset) <= MaxRows
        /\ detections' = detections \o [k \in 1..Len(done) |-> LiveRow(Viewer, done[k])]
        /\ processedImages' = AddAll(led, MarkProcessed(scan, out))
        /\ UNCHANGED <<layout, isProcessing, pollingInterval, timers, calls, ingested,
                       failedLast>>

\* initServices after `await liveMonitoringService.initialize()` said ready:
\* setIsModelLoaded(true) and processLatestImagesAutomatically() of the mount render; the
\* effect on [isModelLoaded] then runs runPendingDetections of the new render
ModelLoaded ==
    /\ Settled
    /\ ~isModelLoaded
    /\ LET h       == detectionHistory
           pending == [k \in 1..Len(FilterSeq([j \in 1..Len(h) |-> j],
                                              {j \in 1..Len(h) : h[j].kind = "drive" /\ h[j].pending}))
                         |-> h[FilterSeq([j \in 1..Len(h) |-> j],
                                         {j \in 1..Len(h) : h[j].kind = "drive" /\ h[j].pending})[k]].id]
           auto    == [NoThread EXCEPT !.op = "auto", !.pc = "svc", !.cl = MountClosure]
           detect  == [NoThread EXCEPT !.op = "pending", !.pc = "detect",
                                       !.stack = <<"pending">>, !.items = pending,
                                       !.cl = [Closure EXCEPT !.model = TRUE]]
           t1      == FirstFree(FreeThreads)
       IN  IF pending = <<>>
           THEN /\ started + 1 <= MaxCalls /\ Cardinality(FreeThreads) >= 1
                /\ threads' = [threads EXCEPT ![t1] = auto]
                /\ started' = started + 1
           ELSE /\ started + 2 <= MaxCalls /\ Cardinality(FreeThreads) >= 2
                /\ threads' = [threads EXCEPT ![t1] = auto,
                                              ![FirstFree(FreeThreads \ {t1})] = detect]
                /\ started' = started + 2
    /\ isModelLoaded' = TRUE
    /\ isAutoProcessing' = TRUE
    /\ UNCHANGED <<svcVars, detectionHistory, isLoadingPage, isDriveFallback,
                   processedDriveIds, driveCache, driveFolders, driveFolderIndex, drivePage,
                   hasMoreDisplay, fetchable, issued, repeated, pageVars>>

\* processLatestImagesAutomatically after `await processLatestImages(uid, 5)`: both
\* branches `await loadCloudHistoryPage(uid, 0)`
AutoSvcReturn(t, seedOk, scanOk, okset) ==
    /\ Settled
    /\ threads[t].pc = "svc" /\ threads[t].op = "auto"
    /\ ServiceRun(5, seedOk, scanOk, okset)
    /\ isLoadingPage' = TRUE
    /\ threads' = [threads EXCEPT ![t] = Await(@, "auto", [@ EXCEPT !.pc = "list"])]
    /\ UNCHANGED <<detectionHistory, isDriveFallback, processedDriveIds, driveCache,
                   driveFolders, driveFolderIndex, drivePage, isModelLoaded,
                   isAutoProcessing, hasMoreDisplay, fetchable, started, issued, repeated,
                   pageVars>>

\* the Show More button: setIsLoadingPage(true) and `await processNextBatch(uid, ...)`
ShowMore ==
    /\ Settled
    /\ detectionHistory # <<>>
    /\ ~(isLoadingPage \/ isAutoProcessing \/ ~hasMoreDisplay)
    /\ started < MaxCalls /\ FreeThreads # {}
    /\ threads' = [threads EXCEPT ![FirstFree(FreeThreads)] =
           [NoThread EXCEPT !.op = "show", !.pc = "svc", !.cl = Closure]]
    /\ isLoadingPage' = TRUE
    /\ started' = started + 1
    /\ UNCHANGED <<svcVars, detectionHistory, isDriveFallback, processedDriveIds, driveCache,
                   driveFolders, driveFolderIndex, drivePage, isModelLoaded,
                   isAutoProcessing, hasMoreDisplay, fetchable, issued, repeated, pageVars>>

\* Show More after `await processNextBatch`: with results reload page 0; without, start
\* loadDriveRecent (not awaited) and go on to `await probeHasMore()`
ShowSvcReturn(t, seedOk, scanOk, okset) ==
    /\ Settled
    /\ threads[t].pc = "svc" /\ threads[t].op = "show"
    /\ ServiceRun(BATCH_SIZE, seedOk, scanOk, okset)
    /\ isLoadingPage' = TRUE
    /\ LET th == threads[t]
       IN  IF okset # {}
           THEN /\ threads' = [threads EXCEPT ![t] = Await(th, "show", [th EXCEPT !.pc = "list"])]
                /\ UNCHANGED isDriveFallback
           ELSE /\ FreeThreads # {}
                /\ isDriveFallback' = TRUE
                /\ threads' = [threads EXCEPT
                       ![t].pc = "probe",
                       ![FirstFree(FreeThreads)] =
                           IF th.cl.fallback
                           THEN DriveStart([NoThread EXCEPT !.op = "drive", !.cl = th.cl],
                                           FALSE, th.cl.page + 1)
                           ELSE DriveStart([NoThread EXCEPT !.op = "drive", !.cl = th.cl],
                                           TRUE, 0)]
    /\ UNCHANGED <<detectionHistory, processedDriveIds, driveCache, driveFolders,
                   driveFolderIndex, drivePage, isModelLoaded, isAutoProcessing,
                   hasMoreDisplay, fetchable, started, issued, repeated, pageVars>>

\* probeHasMore after `await getUnprocessedImages(uid, 1)`, then the `finally` of Show More
ProbeReturn(t, seedOk, scanOk) ==
    /\ Settled
    /\ threads[t].pc = "probe"
    /\ LET led == SeededLedger(seedOk)
       IN  /\ processedImages' = led
           /\ hasMoreDisplay' = (Len(GetUnprocessedImages(led, 1, scanOk)) > 0)
    /\ isLoadingPage' = FALSE
    /\ threads' = [threads EXCEPT ![t] = NoThread]
    /\ UNCHANGED <<layout, detections, isProcessing, pollingInterval, timers, calls,
                   ingested, failedLast, detectionHistory, isDriveFallback,
                   processedDriveIds, driveCache, driveFolders, driveFolderIndex, drivePage,
                   isModelLoaded, isAutoProcessing, fetchable, started, issued, repeated,
                   pageVars>>

\* the feed right after mount: loadCloudHistoryPage(uid, 0) of the first render is in flight
FeedInit ==
    /\ layout \in Layouts
    /\ detections \in InitialStores
    /\ ServiceNew
    /\ detectionHistory = <<>>
    /\ isLoadingPage = TRUE
    /\ isDriveFallback = FALSE
    /\ processedDriveIds = {}
    /\ driveCache = <<>>
    /\ driveFolders = 0
    /\ driveFolderIndex = 0
    /\ drivePage = 0
    /\ isModelLoaded = FALSE
    /\ isAutoProcessing = FALSE
    /\ hasMoreDisplay = TRUE
    /\ supabasePage = 0
    /\ supabaseHasMore = FALSE
    /\ driveHasMore = FALSE
    /\ fetchable \in SUBSET Images
    /\ threads = [t \in Threads |->
                    IF t = 1 THEN [NoThread EXCEPT !.op = "mount", !.pc = "list"]
                    ELSE NoThread]
    /\ request = NoRequest
    /\ reply = NoReply
    /\ started = 1
    /\ issued = {}
    /\ repeated = FALSE

FeedNext ==
    \/ \E t \in Threads, ok \in BOOLEAN : CloudListed(t, ok)
    \/ \E t \in Threads, ok \in BOOLEAN, seedOk \in BOOLEAN : DriveScanned(t, ok, seedOk)
    \/ \E t \in Threads : DriveSelect(t)
    \/ \E t \in Threads : DriveFetched(t)
    \/ \E t \in Threads, detected \in SUBSET Images, saved \in SUBSET Images :
           DetectSettled(t, detected, saved)
    \/ \E t \in Threads : Unwind(t)
    \/ ModelLoaded
    \/ \E t \in Threads, seedOk \in BOOLEAN, scanOk \in BOOLEAN, okset \in SUBSET Images :
           AutoSvcReturn(t, seedOk, scanOk, okset)
    \/ ShowMore
    \/ \E t \in Threads, seedOk \in BOOLEAN, scanOk \in BOOLEAN, okset \in SUBSET Images :
           ShowSvcReturn(t, seedOk, scanOk, okset)
    \/ \E t \in Threads, seedOk \in BOOLEAN, scanOk \in BOOLEAN : ProbeReturn(t, seedOk, scanOk)

SpecFeed == FeedInit /\ [][FeedNext]_vars

\* the feed of a user whose store is still empty
FreshInit == FeedInit /\ detections = <<>>

SpecFresh == FreshInit /\ [][FeedNext]_vars

\* ---- the same feed over the archive "deep", later in a session ----
\* a live record of the viewer that stands for no image of the archive
ForeignRow == [user |-> Viewer, type |-> "live", origin |-> 0, flat |-> FALSE, camera |-> 1]

\* every image the archive holds
ArchiveIds(lay) == UNION {Range(Archive(lay)[f]) : f \in 1..Len(Archive(lay))}

\* the feed once the mount load, the model load and the automatic run are over: the store
\* holds one record, which the feed shows in primary mode, the automatic run could ingest
\* no image, and the handler invocations are counted from here
ScanInit ==
    /\ layout = "deep"
    /\ detections = <<ForeignRow>>
    /\ ServiceNew
    /\ detectionHistory = <<MapItem(detections, 1)>>
    /\ isLoadingPage = FALSE
    /\ isDriveFallback = FALSE
    /\ processedDriveIds = {}
    /\ driveCache = <<>>
    /\ driveFolders = 0
    /\ driveFolderIndex = 0
    /\ drivePage = 0
    /\ isModelLoaded = TRUE
    /\ isAutoProcessing = FALSE
    /\ hasMoreDisplay = TRUE
    /\ supabasePage = 0
    /\ supabaseHasMore = FALSE
    /\ driveHasMore = FALSE
    /\ fetchable = ArchiveIds(layout)
    /\ threads = [t \in Threads |-> NoThread]
    /\ request = NoRequest
    /\ reply = [user |-> Viewer, size |-> PAGE_SIZE, page |-> 0, ok |-> TRUE,
                items |-> <<1>>, hasMore |-> FALSE]
    /\ started = 0
    /\ issued = {}
    /\ repeated = FALSE

\* the images of the archive "deep" whose classification can succeed in a behaviour:
\* those of Images and the first one without a camera suffix
Classified == 1..(NumImages + 1)

ScanNext ==
    \/ \E t \in Threads, ok \in BOOLEAN : CloudListed(t, ok)
    \/ \E t \in Threads, ok \in BOOLEAN, seedOk \in BOOLEAN : DriveScanned(t, ok, seedOk)
    \/ \E t \in Threads : DriveSelect(t)
    \/ \E t \in Threads : DriveFetched(t)
    \/ \E t \in Threads :
           \E detected \in SUBSET (Range(threads[t].items) \cap Classified) :
               \E saved \in SUBSET detected : DetectSettled(t, detected, saved)
    \/ \E t \in Threads : Unwind(t)
    \/ ShowMore
    \/ \E t \in Threads, seedOk \in BOOLEAN, scanOk \in BOOLEAN, okset \in SUBSET Images :
           ShowSvcReturn(t, seedOk, scanOk, okset)
    \/ \E t \in Threads, seedOk \in BOOLEAN, scanOk \in BOOLEAN : ProbeReturn(t, seedOk, scanOk)

SpecScan == ScanInit /\ [][ScanNext]_vars

\* the feed in primary mode over a store of more live records than one page: it shows
\* page 0, and listUserAnalysesPaged has answered hasMore = true
MoreInit ==
    /\ layout \in Layouts
    /\ detections = StoreOf(PAGE_SIZE + 1, FALSE)
    /\ ServiceNew
    /\ LET r == ListUserAnalysesPaged(detections, Viewer, PAGE_SIZE, 0, "live")
       IN  /\ detectionHistory = [k \in 1..Len(r.items) |-> MapItem(detections, r.items[k])]
           /\ reply = [user |-> Viewer, size |-> PAGE_SIZE, page |-> 0, ok |-> TRUE,
                       items |-> r.items, hasMore |-> r.hasMore]
    /\ isLoadingPage = FALSE
    /\ isDriveFallback = FALSE
    /\ processedDriveIds = {}
    /\ driveCache = <<>>
    /\ driveFolders = 0
    /\ driveFolderIndex = 0
    /\ drivePage = 0
    /\ isModelLoaded = TRUE
    /\ isAutoProcessing = FALSE
    /\ hasMoreDisplay = TRUE
    /\ supabasePage = 0
    /\ supabaseHasMore = FALSE
    /\ driveHasMore = FALSE
    /\ fetchable \in SUBSET Images
    /\ threads = [t \in Threads |-> NoThread]
    /\ request = NoRequest
    /\ started = 0
    /\ issued = {}
    /\ repeated = FALSE

SpecMore == MoreInit /\ [][ScanNext]_vars

----------------------------------------------------------------------------
\* One image through processIndividualImage: download, predict, uploadImagesAndSave,
\* createDetection, and the page read that shows the record

Null == "null"                               \* null or undefined
Falsy(v) == v \in {Null, "0", ""}
Or(a, b) == IF Falsy(a) THEN b ELSE a        \* a || b
Nullish(a, b) == IF a = Null THEN b ELSE a   \* a ?? b
Get(rec, key) == IF key \in DOMAIN rec THEN rec[key] ELSE Null    \* rec.key

Diseases == {"Healthy", "Downy Mildew"}

\* what predictWithDetectron returns when the HF Space answers: the visualization is the
\* one of the Space, the one drawn locally, or none when both failed; a confidence the
\* label does not carry becomes 95 (healthy) or 90
HfResults ==
    {[disease |-> d,
      confidence |-> IF parsed # "0" THEN parsed ELSE IF d = "Healthy" THEN "95" ELSE "90",
      severity |-> IF d = "Healthy" THEN "None" ELSE "High",
      detectedRegions |-> IF d = "Healthy" THEN "0" ELSE "1",
      visualizationImage |-> v] :
        d \in Diseases, parsed \in {"0", "72"}, v \in {"hf", "local", Null}}

\* what the colour analysis of the fallback service may return
FallbackResults ==
    {[disease |-> d, confidence |-> "60", severity |-> "Medium", detectedRegions |-> r,
      visualizationImage |-> v] :
        d \in Diseases, r \in {"0", "1", Null}, v \in {"fallback", Null}}

\* predict's last resort
ErrorResult ==
    [disease |-> "Detection Error", confidence |-> "0", severity |-> "Unknown",
     detectedRegions |-> "0", visualizationImage |-> Null]

\* DetectronDiseaseService.predict: hf is what the call to the HF Space does, fb what the
\* fallback service does; it returns a result whatever they do
Predict(fallbackService, hf, r, fb, f) ==
    IF ~fallbackService /\ hf = "ok" THEN r
    ELSE IF fb = "ok" THEN f
    ELSE ErrorResult

\* this.fallbackService after predict
FallbackAfter(fallbackService, hf, fb) ==
    fallbackService \/ (hf # "ok" /\ fb # "importThrows")

\* the options processIndividualImage passes to uploadImagesAndSave
SaveOptions(i, imageDataUrl, detectionResult) ==
    [originalImageDataUrl |-> imageDataUrl,
     visualizationImageDataUrl |-> Or(detectionResult.visualizationImage, imageDataUrl),
     result |-> [disease |-> detectionResult.disease,
                 confidence |-> detectionResult.confidence,
                 severity |-> detectionResult.severity,
                 detectedRegions |-> Or(detectionResult.detectedRegions, "0"),
                 modelType |-> "AI (HF Space)"],
     context |-> "live",
     camera |-> IF NameOf(i) = 2 THEN 2 ELSE 1,
     sourceMeta |-> [originDriveId |-> i]]

\* uploadImage(...).publicUrl for a data URL
PublicUrl(dataUrl) == IF dataUrl = Null THEN Null ELSE "public"

\* the detectionData uploadImagesAndSave builds once both images are uploaded
DetectionData(options) ==
    [type |-> options.context,
     image_url |-> PublicUrl(options.originalImageDataUrl),
     disease_detected |-> Or(options.result.disease, Null),
     confidence_score |-> Or(options.result.confidence, Null),
     severity |-> Or(options.result.severity, Null),
     detected_regions |-> Or(options.result.detectedRegions, "0"),
     model_type |-> Or(options.result.modelType, "AI (HF Space)"),
     visualization_image |->
         PublicUrl(Or(options.visualizationImageDataUrl, options.originalImageDataUrl)),
     camera |-> options.camera,
     analysis_result |-> [originDriveId |-> options.sourceMeta.originDriveId,
                          disease |-> options.result.disease,
                          confidence |-> options.result.confidence,
                          detectedRegions |-> options.result.detectedRegions]]

\* the row detectionService.createDetection inserts for a detectionData
CreateDetection(u, detectionData) ==
    [user |-> u,
     type |-> Get(detectionData, "type"),
     image_url |-> Get(detectionData, "image_url"),
     disease_detected |-> Get(detectionData, "disease"),
     confidence_score |-> Get(detectionData, "confidence"),
     severity |-> Or(Get(detectionData, "severity"), Null),
     detected_regions |-> Nullish(Get(detectionData, "detectedRegions"), Null),
     camera |-> detectionData.camera,
     model_type |-> Or(Get(detectionData, "modelType"), Null),
     visualization_image |-> Or(Get(detectionData, "visualizationImage"), Null),
     analysis_result |-> detectionData,
     flat |-> "originDriveId" \in DOMAIN detectionData,
     origin |-> IF "originDriveId" \in DOMAIN detectionData
                THEN detectionData.originDriveId
                ELSE detectionData.analysis_result.originDriveId]

\* what uploadImagesAndSave returns
SavedResult(id, detectionData) ==
    [id |-> id, image_url |-> detectionData.image_url,
     visualizationImage |-> detectionData.visualization_image]

\* listUserAnalysesPaged: the entry a row of the page is mapped to
MapDetection(rows, id) ==
    [id |-> id,
     disease |-> rows[id].disease_detected,
     confidence |-> rows[id].confidence_score,
     severity |-> rows[id].severity,
     detectedRegions |-> Or(rows[id].detected_regions, "0"),
     visualizationImage |-> Or(rows[id].visualization_image, Null),
     modelType |-> Or(rows[id].model_type, "AI (HF Space)"),
     type |-> rows[id].type,
     camera |-> rows[id].camera]

NoItem ==
    [op |-> "item", pc |-> "idle", image |-> 0, fallbackService |-> FALSE, hf |-> "none",
     imageDataUrl |-> Null, detectionResult |-> ErrorResult, options |-> Null,
     originalUrl |-> Null, visUrl |-> Null, saved |-> Null, outcome |-> "none"]

\* processIndividualImage(Viewer, image i) is called
ItemStart(i) ==
    /\ request.pc = "idle"
    /\ Len(detections) < MaxRows
    /\ request' = [NoItem EXCEPT !.pc = "download", !.image = i,
                                 !.fallbackService = request.fallbackService]
    /\ UNCHANGED <<svcVars, feedVars, supabasePage, supabaseHasMore, driveHasMore, reply>>

\* getImageAsDataUrl answers and the image is decoded, or one of the two fails and
\* processIndividualImage rejects
ItemDownloaded(ok) ==
    /\ request.pc = "download"
    /\ request' = IF ok THEN [request EXCEPT !.pc = "predict", !.imageDataUrl = "image"]
                        ELSE [request EXCEPT !.pc = "idle", !.outcome = "rejected"]
    /\ UNCHANGED <<svcVars, feedVars, supabasePage, supabaseHasMore, driveHasMore, reply>>

\* detectionService.predict(img, true) resolves
ItemPredicted(hf, r, fb, f) ==
    /\ request.pc = "predict"
    /\ request' = [request EXCEPT
           !.pc = "save",
           !.hf = IF request.fallbackService THEN "unused" ELSE hf,
           !.detectionResult = Predict(request.fallbackService, hf, r, fb, f),
           !.fallbackService = FallbackAfter(request.fallbackService, hf, fb)]
    /\ UNCHANGED <<svcVars, feedVars, supabasePage, supabaseHasMore, driveHasMore, reply>>

\* an insert that does not wait for the uploads to succeed
Inserts_DespiteUploads(original, visualization, insert) == insert

\* uploadImagesAndSave reaches the end of createDetection: a throw of uploadImage (original,
\* then visualization) or of the insert leaves the try block
Inserts(original, visualization, insert) == original /\ visualization /\ insert

\* uploadImagesAndSave: the upload of the original, the upload of the visualization and
\* the insert each answer or throw; the first throw rejects the call and with it
\* processIndividualImage.  originalUrl and visUrl are the function's locals.
ItemSaved(original, visualization, insert) ==
    /\ request.pc = "save"
    /\ LET options == SaveOptions(request.image, request.imageDataUrl, request.detectionResult)
           detectionData == DetectionData(options)
           originalUrl == IF original THEN PublicUrl(options.originalImageDataUrl) ELSE Null
           visUrl == IF original /\ visualization
                     THEN PublicUrl(Or(options.visualizationImageDataUrl,
                                       options.originalImageDataUrl))
                     ELSE Null
       IN  IF Inserts(original, visualization, insert)
           THEN /\ detections' = Append(detections, CreateDetection(Viewer, detectionData))
                /\ request' = [request EXCEPT
                       !.pc = "idle", !.outcome = "fulfilled",
                       !.originalUrl = originalUrl, !.visUrl = visUrl,
                       !.options = options.visualizationImageDataUrl,
                       !.saved = SavedResult(Len(detections) + 1, detectionData).visualizationImage]
           ELSE /\ detections' = detections
                /\ request' = [request EXCEPT !.pc = "idle", !.outcome = "rejected",
                                              !.originalUrl = originalUrl, !.visUrl = visUrl]
    /\ UNCHANGED <<layout, processedImages, isProcessing, pollingInterval, timers, calls,
                   ingested, failedLast, feedVars, supabasePage, supabaseHasMore,
                   driveHasMore, reply>>

\* listUserAnalysesPaged(Viewer, PAGE_SIZE, 0, { type: 'live' }) answers
ItemListed(ok) ==
    /\ request.pc = "idle"
    /\ LET r == IF ok THEN ListUserAnalysesPaged(detections, Viewer, PAGE_SIZE, 0, "live")
                      ELSE FailedListing
       IN  reply' = [user |-> Viewer, size |-> PAGE_SIZE, page |-> 0, ok |-> ok,
                     items |-> [k \in 1..Len(r.items) |-> MapDetection(detections, r.items[k])],
                     hasMore |-> r.hasMore]
    /\ UNCHANGED <<svcVars, feedVars, supabasePage, supabaseHasMore, driveHasMore, request>>

ItemInit ==
    /\ layout = "one"
    /\ detections = <<>>
    /\ ServiceNew
    /\ detectionHistory = <<>>
    /\ isLoadingPage = FALSE
    /\ isDriveFallback = FALSE
    /\ processedDriveIds = {}
    /\ driveCache = <<>>
    /\ driveFolders = 0
    /\ driveFolderIndex = 0
    /\ drivePage = 0
    /\ isModelLoaded = TRUE
    /\ isAutoProcessing = FALSE
    /\ hasMoreDisplay = TRUE
    /\ supabasePage = 0
    /\ supabaseHasMore = FALSE
    /\ driveHasMore = FALSE
    /\ fetchable = Images
    /\ threads = [t \in {} |-> NoThread]
    /\ request = NoItem
    /\ reply = NoReply
    /\ started = 0
    /\ issued = {}
    /\ repeated = FALSE

ItemNext ==
    \/ \E i \in Images : ItemStart(i)
    \/ \E ok \in BOOLEAN : ItemDownloaded(ok)
    \/ \E hf \in {"ok", "throws", "timeout"}, r \in HfResults,
          fb \in {"ok", "throws", "importThrows"}, f \in FallbackResults :
           ItemPredicted(hf, r, fb, f)
    \/ \E original \in BOOLEAN, visualization \in BOOLEAN, insert \in BOOLEAN :
           ItemSaved(original, visualization, insert)
    \/ \E ok \in BOOLEAN : ItemListed(ok)

SpecItem == ItemInit /\ [][ItemNext]_vars

----------------------------------------------------------------------------
\* predictWithDetectron: the confidence read from the textual label of the HF Space.
\* A label is a sequence of characters; confidences are counted in tenths of a percent.

MaxLabel == 4        \* characters of a label

Chars == {"0", "1", "5", ".", "%", " ", "x"}
Labels == UNION {[1..n -> Chars] : n \in 0..MaxLabel}

Digit(c) == c \in {"0", "1", "2", "3", "4", "5", "6", "7", "8", "9"}
DigitVal(c) ==
    CASE c = "0" -> 0 [] c = "1" -> 1 [] c = "2" -> 2 [] c = "3" -> 3 [] c = "4" -> 4
      [] c = "5" -> 5 [] c = "6" -> 6 [] c = "7" -> 7 [] c = "8" -> 8 [] c = "9" -> 9

RECURSIVE NumberOf(_)
\* parseFloat of a run of digits
NumberOf(d) ==
    IF d = <<>> THEN 0
    ELSE 10 * NumberOf(SubSeq(d, 1, Len(d) - 1)) + DigitVal(d[Len(d)])

\* /(\d{1,3})\s?%/ matches at position i with a group of n digits
PercentAt(label, i, n) ==
    /\ i + n - 1 <= Len(label)
    /\ \A j \in i..(i + n - 1) : Digit(label[j])
    /\ \/ i + n <= Len(label) /\ label[i + n] = "%"
       \/ i + n + 1 <= Len(label) /\ label[i + n] = " " /\ label[i + n + 1] = "%"

\* label.match(/(\d{1,3})\s?%/)[1]: the group of the leftmost match, the longest the
\* greedy quantifier finds there; <<>> when the label does not match
PercentMatch(label) ==
    LET starts == {i \in 1..Len(label) : \E n \in 1..3 : PercentAt(label, i, n)}
    IN  IF starts = {} THEN <<>>
        ELSE LET i == CHOOSE x \in starts : \A y \in starts : x <= y
                 n == CHOOSE m \in 1..3 :
                          /\ PercentAt(label, i, m)
                          /\ \A k \in 1..3 : PercentAt(label, i, k) => k <= m
             IN  SubSeq(label, i, i + n - 1)

\* the digits \d{1,3} takes from position p on
DigitRun(label, p) ==
    LET len == CHOOSE m \in 0..3 :
                   /\ \A j \in p..(p + m - 1) : j <= Len(label) /\ Digit(label[j])
                   /\ m = 3 \/ p + m > Len(label) \/ ~Digit(label[p + m])
    IN  SubSeq(label, p, p + len - 1)

\* 0.d, 0.dd or 0.ddd in thousandths
Thousandths(d) ==
    NumberOf(d) * (IF Len(d) = 1 THEN 100 ELSE IF Len(d) = 2 THEN 10 ELSE 1)

\* /(0?\.\d{1,3}|1\.0)/ matches at position i: the value of the group in thousandths,
\* -1 when it does not match there
ProbAt(label, i) ==
    IF label[i] = "0" /\ i + 2 <= Len(label) /\ label[i + 1] = "." /\ Digit(label[i + 2])
    THEN Thousandths(DigitRun(label, i + 2))
    ELSE IF label[i] = "." /\ i + 1 <= Len(label) /\ Digit(label[i + 1])
    THEN Thousandths(DigitRun(label, i + 1))
    ELSE IF label[i] = "1" /\ i + 2 <= Len(label) /\ label[i + 1] = "." /\ label[i + 2] = "0"
    THEN 1000
    ELSE -1

\* label.match(/(0?\.\d{1,3}|1\.0)/)[1] in thousandths; -1 when the label does not match
ProbMatch(label) ==
    LET starts == {i \in 1..Len(label) : ProbAt(label, i) >= 0}
    IN  IF starts = {} THEN -1
        ELSE ProbAt(label, CHOOSE x \in starts : \A y \in starts : x <= y)

\* Math.max(0, Math.min(100, v)), in tenths of a percent
Clamp(v) == IF v < 0 THEN 0 ELSE IF v > 1000 THEN 1000 ELSE v

\* isHealthy ? 95 : 90
DefaultConfidence(isHealthy) == IF isHealthy THEN 950 ELSE 900

\* confidencePct of predictWithDetectron
Confidence(label, isHealthy) ==
    LET percentMatch == PercentMatch(label)
        probMatch    == ProbMatch(label)
        parsed == IF percentMatch # <<>> THEN Clamp(10 * NumberOf(percentMatch))
                  ELSE IF probMatch >= 0 THEN Clamp(probMatch)
                  ELSE 0
    IN  IF parsed = 0 THEN DefaultConfidence(isHealthy) ELSE parsed

\* the HF Space has answered with request.label: the confidence is computed
LabelParsed ==
    /\ request.op = "label" /\ request.pc = "idle"
    /\ request' = [request EXCEPT !.pc = "done"]
    /\ reply' = [confidence |-> Confidence(request.label, request.isHealthy)]
    /\ UNCHANGED <<svcVars, feedVars, supabasePage, supabaseHasMore, driveHasMore>>

LabelInit ==
    /\ layout = "none"
    /\ detections = <<>>
    /\ ServiceNew
    /\ detectionHistory = <<>>
    /\ isLoadingPage = FALSE
    /\ isDriveFallback = FALSE
    /\ processedDriveIds = {}
    /\ driveCache = <<>>
    /\ driveFolders = 0
    /\ driveFolderIndex = 0
    /\ drivePage = 0
    /\ isModelLoaded = TRUE
    /\ isAutoProcessing = FALSE
    /\ hasMoreDisplay = TRUE
    /\ supabasePage = 0
    /\ supabaseHasMore = FALSE
    /\ driveHasMore = FALSE
    /\ fetchable = {}
    /\ threads = [t \in {} |-> NoThread]
    /\ \E label \in Labels, isHealthy \in BOOLEAN :
           request = [op |-> "label", pc |-> "idle", label |-> label, isHealthy |-> isHealthy]
    /\ reply = NoReply
    /\ started = 0
    /\ issued = {}
    /\ repeated = FALSE

SpecLabel == LabelInit /\ [][LabelParsed]_vars

----------------------------------------------------------------------------
\* Properties of LiveMonitoringService (specification Spec)

\* a processLatestImages call that got past the busy guard and has just returned
RunDone(s) == calls[s].kind = "run" /\ calls[s].pc = "done" /\ ~calls[s].skipped

OkItems(c)   == {c.batch[k] : k \in {j \in 1..Len(c.batch) : c.out[j] = "ok"}}
FailItems(c) == {c.batch[k] : k \in {j \in 1..Len(c.batch) : c.out[j] = "fail"}}
Origins      == {detections[k].origin : k \in 1..Len(detections)}

C2_LedgerOnlyPersisted == processedImages \subseteq Origins

\* a run has just completed that marked one item and left a rejected one unmarked
C2_Witness ==
    \E s \in Slots : RunDone(s) /\ calls[s].marked # {} /\ FailItems(calls[s]) # {}

\* C3: two batch runs never overlap, and a processLatestImages call made while a run is in
\* flight returns an empty result without scanning or processing anything and leaves the
\* service as it was.
RunsInFlight == {s \in Slots : calls[s].kind = "run" /\ calls[s].pc \notin {"idle", "done"}}

C3_NoOverlap ==
    /\ Cardinality(RunsInFlight) <= 1
    /\ isProcessing <=> RunsInFlight # {}
    /\ \A s \in Slots : (calls[s].pc = "done" /\ calls[s].skipped) =>
          /\ calls[s].result = <<>>
          /\ calls[s].batch = <<>> /\ calls[s].acc = <<>> /\ calls[s].fi = 0
          /\ calls[s].marked = {}
          /\ RunsInFlight # {}

C3_SkipChangesNothing ==
    \A s \in Slots : (calls'[s].skipped /\ calls'[s].pc = "done" /\ calls[s].pc # "done") =>
        /\ UNCHANGED <<processedImages, detections, isProcessing, ingested, failedLast>>
        /\ \A r \in Slots \ {s} : calls'[r] = calls[r]

C3_RunsNeverOverlap == [](C3_NoOverlap) /\ [][C3_SkipChangesNothing]_vars

\* a call was turned away while the run in flight is processing its items
C3_Witness ==
    \E s, r \in Slots : /\ calls[s].pc = "done" /\ calls[s].skipped
                        /\ calls[r].kind = "run" /\ calls[r].pc = "items"

----------------------------------------------------------------------------
\* Properties of the paged listing (specification SpecPage)

\* the live rows of user u, and how many live rows of u are newer than row id
LiveIds(u) ==
    {j \in 1..Len(detections) : detections[j].user = u /\ detections[j].type = "live"}
NewerThan(u, id) == Cardinality({j \in LiveIds(u) : j > id})

\* C9: for an unchanging store holding N live records of a user and page size S, a
\* successful listUserAnalysesPaged(user, S, p) returns exactly the records at newest-first
\* positions S*p .. min(S*p+S, N)-1 and hasMore = (S*(p+1) < N); the feed asks for a
\* further page of the store only while records are left, and once hasMore is false the
\* next Show More goes to the fallback scan.
C9_ReplyIsThePage ==
    reply.ok =>
        LET N  == Cardinality(LiveIds(reply.user))
            lo == reply.size * reply.page
            hi == IF lo + reply.size < N THEN lo + reply.size ELSE N
        IN  /\ Len(reply.items) = IF hi > lo THEN hi - lo ELSE 0
            /\ \A k \in 1..Len(reply.items) :
                   /\ reply.items[k] \in LiveIds(reply.user)
                   /\ NewerThan(reply.user, reply.items[k]) = lo + k - 1
            /\ reply.hasMore <=> (reply.size * (reply.page + 1) < N)

C9_NoPagePastTheEnd ==
    (request.op = "supabase" /\ request.page > 0) =>
        PAGE_SIZE * request.page < Cardinality(LiveIds(Viewer))

C9_ThenFallback ==
    (request.op = "none" /\ request'.op # "none") =>
        (request'.op = "drive" <=> (isDriveFallback \/ ~supabaseHasMore))

C9_PagedListing ==
    [](C9_ReplyIsThePage /\ C9_NoPagePastTheEnd) /\ [][C9_ThenFallback]_vars

\* fifteen records, page size ten: page 0 gave ten records, page 1 the other five with
\* hasMore false, and the next Show More has gone to the fallback scan
C9_Witness ==
    /\ Cardinality(LiveIds(Viewer)) = 15
    /\ reply = [user |-> Viewer, size |-> 10, page |-> 1, ok |-> TRUE,
                items |-> <<5, 4, 3, 2, 1>>, hasMore |-> FALSE]
    /\ Len(detectionHistory) = 15
    /\ \A k \in 1..15 : detectionHistory[k].id = 16 - k
    /\ request.op = "drive" /\ isDriveFallback

----------------------------------------------------------------------------
\* Properties of LiveCameraFeed (specification SpecFeed)

\* no handler invocation is in flight
FeedIdle == \A t \in Threads : threads[t] = NoThread

\* two entries stand for the same remote item, or are the same record
SameItem(a, b) ==
    \/ a.origin # 0 /\ a.origin = b.origin
    \/ a.kind = b.kind /\ a.id = b.id

\* C6: after any sequence of primary page loads, fallback loads and reconciliations,
\* detectionHistory never holds two entries that stand for the same remote item (the same
\* Drive ID, as a persisted record or as a drive_ placeholder) or the same record id.
C6_NoDuplicateEntries ==
    \A j, k \in 1..Len(detectionHistory) :
        j < k => ~SameItem(detectionHistory[j], detectionHistory[k])

\* C7: over the loadDriveRecent calls made while processedDriveIds does not change, no
\* Drive image ID is in the batch of more than one call.
C7_NoRepeatedDiscovery == ~repeated

PageZeroHasRecords ==
    \E t \in Threads :
        /\ threads[t].pc = "list"
        /\ detectionHistory' # <<>>
        /\ \A k \in 1..Len(detectionHistory') : detectionHistory'[k].kind = "sb"
NothingNewInArchive ==
    \E t \in Threads :
        /\ threads[t].pc = "select"
        /\ Range(threads[t].working) \subseteq threads[t].cl.seen
ArchiveListingThrew ==
    \E t \in Threads : threads[t].pc = "scan" /\ threads'[t].pc = "return"
PlaceholderClassified ==
    \E t \in Threads :
        /\ threads[t].pc = "detect"
        /\ threads'[t].anySaved
        /\ \E i \in Range(threads[t].items) :
               \A k \in 1..Len(detectionHistory') :
                   (detectionHistory'[k].kind = "drive" /\ detectionHistory'[k].id = i)
                       => ~detectionHistory'[k].pending

FirstLoadOfEmptyStore ==
    /\ started = 1
    /\ FeedIdle
    /\ LiveIds(Viewer) = {}
    /\ \E f \in 1..Len(Folders(layout)) : Range(Folders(layout)[f]) \cap fetchable # {}

PendingPlaceholders ==
    /\ detectionHistory # <<>>
    /\ \A k \in 1..Len(detectionHistory) :
           detectionHistory[k].kind = "drive" /\ detectionHistory[k].pending

Reconciled(t) == threads[t].pc = "detect" /\ threads'[t] # threads[t]

\* the list keeps its length, every entry that is no placeholder of an item of the
\* reconciliation is unchanged, and a placeholder changes at most from pending to classified
OnlyItsEntriesChange(t) ==
    /\ Len(detectionHistory') = Len(detectionHistory)
    /\ \A k \in 1..Len(detectionHistory) :
           \/ detectionHistory'[k] = detectionHistory[k]
           \/ /\ detectionHistory[k].kind = "drive"
              /\ detectionHistory[k].id \in Range(threads[t].items)
              /\ detectionHistory'[k] = [detectionHistory[k] EXCEPT !.pending = FALSE]

\* C11 as stated: when detectAndPersistForDriveItems completes, detectionHistory changes
\* only at the entries of its placeholders and no page load is triggered.
C11_InPlaceAndNoPageLoad ==
    [][\A t \in Threads : Reconciled(t) =>
           /\ OnlyItsEntriesChange(t)
           /\ threads'[t].pc # "list"]_vars

\* C11: when detectAndPersistForDriveItems completes, detectionHistory changes only at the
\* entries whose id is that of one of its placeholders (same length, same order, all other
\* entries unchanged); it then leaves fallback mode and awaits loadCloudHistoryPage(uid, 0)
\* exactly when at least one of its items was classified.
C11_InPlaceThenReloadIfClassified ==
    [][\A t \in Threads : Reconciled(t) =>
           /\ OnlyItsEntriesChange(t)
           /\ (threads'[t].pc \in {"list", "cut"}) <=> threads'[t].anySaved
           /\ threads'[t].anySaved => (~isDriveFallback' /\ isLoadingPage')
           /\ ~threads'[t].anySaved => detectionHistory' = detectionHistory]_vars

\* one placeholder was classified, the other one is still pending, and the reload of
\* page 0 is in flight
C11_Witness ==
    \E t \in Threads :
        /\ threads[t].pc = "list" /\ threads[t].anySaved
        /\ Head(threads[t].stack) = "detect"
        /\ \E j, k \in 1..Len(detectionHistory) :
               /\ detectionHistory[j].kind = "drive" /\ ~detectionHistory[j].pending
               /\ detectionHistory[k].kind = "drive" /\ detectionHistory[k].pending

----------------------------------------------------------------------------
\* Properties of the fallback scan of the paged feed (specification SpecPage)

\* C12: when a listing throws in loadDriveImages after pages were fetched in that call, the
\* images collected so far are still shown in the feed and driveHasMore is not set to false.
C12_PartialScanSurfaced ==
    [][\A answers \in 0..(NumImages + 1) :
           LET out == DriveScan(answers).loop
           IN  (LoadDriveReturn(answers) /\ out.failed /\ out.index > driveFolderIndex) =>
                   /\ driveHasMore'
                   /\ \A i \in Range(out.unprocessed) \cap fetchable :
                          \E k \in 1..Len(detectionHistory') :
                              detectionHistory'[k] = Placeholder(i)]_vars

----------------------------------------------------------------------------
\* Properties of the scan cursor of loadDriveRecent (specification SpecScan)

RECURSIVE ConcatFolders(_, _)
\* the listings of the folders a..b of the archive, one after the other
ConcatFolders(a, b) ==
    IF a > b THEN <<>> ELSE Folders(layout)[a] \o ConcatFolders(a + 1, b)

\* a listing of invocation t of loadDriveRecent throws in this step
ListingThrew(t) ==
    threads[t].pc = "scan" /\ threads'[t].pc = "return" /\ driveFolders' = driveFolders
        /\ Folders(layout) # <<>>

\* the listings of invocation t of loadDriveRecent have all answered in this step
ListingsAnswered(t) == threads[t].pc = "scan" /\ threads'[t].pc = "select"

----------------------------------------------------------------------------
\* Properties of the record of one item (specification SpecItem)

\* the item of the last processIndividualImage call was saved
ItemFulfilled == request.op = "item" /\ request.pc = "idle" /\ request.outcome = "fulfilled"

\* C14: when the call to the HF Space times out or throws, predict still resolves, the
\* item goes on to uploadImagesAndSave, and the record persisted for it has a non-null
\* visualization URL.
C14_InferenceFailureStillVisualized ==
    (ItemFulfilled /\ request.hf \in {"throws", "timeout"}) =>
        detections[Len(detections)].visualization_image # Null

\* C18: the page read that follows uploadImagesAndSave of a classified item returns an
\* entry for the new record whose disease, confidence, region count and visualization URL
\* are the ones that were passed to uploadImagesAndSave.
C18_SavedRecordReadBack ==
    [][(ItemListed(TRUE) /\ ItemFulfilled /\ request.detectionResult.disease \in Diseases) =>
           LET passed == SaveOptions(request.image, request.imageDataUrl,
                                     request.detectionResult)
           IN  \E k \in 1..Len(reply'.items) :
                   /\ reply'.items[k].id = Len(detections)
                   /\ reply'.items[k].disease = passed.result.disease
                   /\ reply'.items[k].confidence = passed.result.confidence
                   /\ reply'.items[k].detectedRegions = passed.result.detectedRegions
                   /\ reply'.items[k].visualizationImage =
                          PublicUrl(passed.visualizationImageDataUrl)]_vars

----------------------------------------------------------------------------
\* Properties of the polling loop (specification SpecMonitor)

\* C15: every processLatestImages run that sets the busy flag clears it in the end, also
\* when a remote call of one of its items never answers.
C15_BusyFlagCleared == isProcessing ~> ~isProcessing


\* C16: once stopAutoMonitoring has returned no timer of the service is armed, however
\* often startAutoMonitoring was called before, so that no tick starts a call; the stop
\* leaves the calls in flight, the busy flag and the ledger as they are, and a run that
\* completes afterwards still adds its fulfilled items to the ledger.
C16_StopDisarmsAndSpares ==
    [][/\ pollingInterval' = 0 => timers' = {}
       /\ (pollingInterval # 0 /\ pollingInterval' = 0) =>
              UNCHANGED <<calls, isProcessing, processedImages, detections>>
       /\ \A s \in Slots :
              /\ (calls[s].pc = "idle" /\ calls'[s].pc # "idle") => pollingInterval' # 0
              /\ (calls[s].pc = "items" /\ calls'[s].pc = "done") =>
                     processedImages' =
                         processedImages \cup MarkProcessed(calls[s].batch, calls'[s].out)]_vars

\* the monitoring is stopped, and the run that was in flight at the stop has completed and
\* marked an item
C16_Witness ==
    /\ pollingInterval = 0 /\ timers = {}
    /\ \E s \in Slots : RunDone(s) /\ calls[s].marked # {} /\ calls[s].marked \subseteq processedImages

----------------------------------------------------------------------------
\* Properties of the ledger (specification Spec)

\* C19 as stated: no step but resetProcessedCache removes an ID from processedImages.
C19_OnlyResetShrinks ==
    [][processedImages \subseteq processedImages' \/ ResetProcessedCache]_vars

\* C19: no step removes an ID from processedImages but resetProcessedCache and destroy,
\* which both empty it.
C19_OnlyResetOrDestroyShrinks ==
    [][\/ processedImages \subseteq processedImages'
       \/ (ResetProcessedCache \/ Destroy) /\ processedImages' = {}]_vars

\* the ledger holds an ID that was seeded and one that a run has added, a call is in
\* flight and the timer is armed
C19_Witness ==
    /\ ingested # {} /\ processedImages \ ingested # {}
    /\ pollingInterval # 0
    /\ \E s \in Slots : calls[s].pc \notin {"idle", "done"}

----------------------------------------------------------------------------
\* Properties of the two ingestion paths of a session (specification SpecFresh)

\* C17: whatever the interleaving of processLatestImages and detectAndPersistForDriveItems,
\* the records inserted during the session carry pairwise different origin IDs.
C17_OneRecordPerItem ==
    \A j, k \in 1..Len(detections) :
        (j < k /\ detections[j].origin # 0) => detections[j].origin # detections[k].origin

----------------------------------------------------------------------------
\* Properties of the ledger across users (specification SpecUsers)

\* the images the user's records were made from
OriginsOf(u) ==
    {detections[k].origin : k \in {j \in 1..Len(detections) : detections[j].user = u}}

\* C20: the ledger that filters the candidates of the signed-in user holds only IDs that
\* were seeded from that user's records or ingested for that user.
C20_LedgerOfTheUser ==
    \A s \in Slots :
        (calls[s].pc \in {"folders", "list"} /\ calls[s].user = request.user
             /\ ~calls[s].stale) =>
            processedImages \subseteq OriginsOf(request.user)

----------------------------------------------------------------------------
\* Properties of the ledger operations (specification Spec)

----------------------------------------------------------------------------
\* Properties of the 'Show more' control (specification SpecFeed)

\* the images of the archive that getUnprocessedImages would still offer
StillUnprocessed(led) == {i \in ArchiveIds(layout) : Unprocessed(led, i)}

\* C22: when probeHasMore disables 'Show more', the archive holds no further unprocessed
\* image; a listing that failed during the probe leaves the control enabled.
C22_ShowMoreStaysEnabled ==
    [][\A t \in Threads :
           (threads[t].pc = "probe" /\ threads'[t].pc # "probe" /\ ~hasMoreDisplay') =>
               StillUnprocessed(processedImages') = {}]_vars

----------------------------------------------------------------------------
\* Properties of getUnprocessedImages (specification Spec)

\* C23: getUnprocessedImages(user, limit) never holds more than limit descriptors when a
\* folder has been taken in, and a descriptor it takes in from a listing is not in the
\* ledger when that listing is filtered.
C23_AtMostLimitNoneProcessed ==
    [][\A s \in Slots :
           (calls[s].pc \in {"folders", "list"} /\ calls'[s].pc \in {"list", "scanned"}) =>
               /\ Len(calls'[s].acc) <= calls'[s].limit
               /\ (Range(calls'[s].acc) \ Range(calls[s].acc)) \cap processedImages = {}
               /\ \A i \in Range(calls'[s].acc) : NameOf(i) \in {1, 2}]_vars

\* a scan for one descriptor has returned one although the archive holds two images, one
\* of them in the ledger
C23_Witness ==
    \E s \in Slots :
        /\ calls[s].pc = "scanned" /\ ~calls[s].scanFailed
        /\ calls[s].limit = 1 /\ Len(calls[s].acc) = 1
        /\ processedImages \cap ArchiveIds(layout) # {}
        /\ Range(calls[s].acc) \cap processedImages = {}
        /\ Cardinality(ArchiveIds(layout)) > 1

----------------------------------------------------------------------------
\* Properties of the fallback scan's cursor (specification SpecScan)

\* the call of thread t gets its listings answered in this step, the first page of the
\* newest folder among them
ListsNewestFolder(t) ==
    /\ threads[t].pc = "scan" /\ threads'[t].pc = "select"
    /\ threads[t].cl.cache = <<>>

\* C24: across the loadDriveRecent calls of a session no (folder, page token) pair is listed
\* twice, so the first page of the newest folder is listed only while no call has stored
\* the folders yet, and the stored cursor only moves forward.
C24_NoPairListedTwice ==
    [][/\ \A t \in Threads : ListsNewestFolder(t) => driveFolders = 0
       /\ driveFolderIndex' >= driveFolderIndex]_vars

----------------------------------------------------------------------------
\* Properties of the service scan on a folder of more than one listing page
\* (specification SpecArchive)

\* C25: a getUnprocessedImages call whose listings all answered returns fewer than limit
\* descriptors only when every eligible unprocessed image of the archive, in whatever
\* folder and on whatever listing page, is among them.
C25_FewerOnlyWhenNoneLeft ==
    [][\A s \in Slots :
           (/\ calls[s].pc \in {"folders", "list"}
            /\ calls'[s].pc = "scanned" /\ ~calls'[s].scanFailed
            /\ Len(calls'[s].acc) < calls'[s].limit) =>
               StillUnprocessed(processedImages) \subseteq Range(calls'[s].acc)]_vars

----------------------------------------------------------------------------
\* Properties of the origin metadata of a saved record (specification SpecItem)

\* C26: once uploadImagesAndSave has saved the live record of Drive image d for a user, a
\* successful listProcessedDriveIds of that user on the store returns a set that holds d.
C26_SavedOriginListed ==
    request.outcome = "fulfilled" =>
        request.image \in ListProcessedDriveIds(detections, Viewer)

----------------------------------------------------------------------------
\* Properties of the processed set of the fallback path (specification SpecFeed)

\* C27: a Drive ID is in processedDriveIds only if the store holds the detection record
\* of that image for the user, so an item whose classification or save failed stays
\* unmarked and is offered again.
C27_ProcessedOnlyIfPersisted ==
    \A d \in processedDriveIds :
        \E k \in 1..Len(detections) :
            detections[k].user = Viewer /\ detections[k].origin = d

----------------------------------------------------------------------------
\* Properties of the records of both ingestion paths (specification SpecScan)

\* C28: every live record made from a Drive image, by the service scan or by the feed's
\* fallback scan, is of an image whose name carries a camera suffix, and its camera tag
\* is the one of the suffix.
C28_OnlyCameraImagesPersisted ==
    \A k \in 1..Len(detections) :
        (detections[k].type = "live" /\ detections[k].origin # 0) =>
            /\ NameOf(detections[k].origin) \in {1, 2}
            /\ detections[k].camera = NameOf(detections[k].origin)

----------------------------------------------------------------------------
\* Properties of driveHasMore in the paged feed (specification SpecPage)

\* C29: after a loadDriveImages call that completed without error, driveHasMore is true
\* exactly when the scan cursor is not exhausted, that is when a folder at or behind the
\* cursor has not been fetched yet.
C29_HasMoreIffCursorOpen ==
    [][\A answers \in 0..(NumImages + 1) :
           LET scan == DriveScan(answers)
           IN  (LoadDriveReturn(answers) /\ scan.foldersOk /\ ~scan.loop.failed) =>
                   (driveHasMore' <=> driveFolderIndex' < driveFolders')]_vars

----------------------------------------------------------------------------
\* Properties of 'Show more' over a store of several pages (specification SpecMore)

\* the rows of persisted page p as the feed shows them
PageShown(rows, history, p) ==
    \A id \in Range(ListUserAnalysesPaged(rows, Viewer, PAGE_SIZE, p, "live").items) :
        \E k \in 1..Len(history) : history[k].kind = "sb" /\ history[k].id = id

\* the 'Show more' handler of thread t, started in primary mode, ends in this step
ShowMoreEnds(t) ==
    /\ threads[t].op = "show" /\ threads[t].pc = "probe" /\ threads'[t].pc # "probe"
    /\ ~threads[t].cl.fallback

\* C30: when a 'Show more' request made in primary mode ends while the store holds more
\* live records than the first page, the feed shows the first page and the next one, and
\* it is still in primary mode.
C30_ShowMoreLoadsNextPage ==
    [][\A t \in Threads :
           (/\ ShowMoreEnds(t)
            /\ ListUserAnalysesPaged(detections, Viewer, PAGE_SIZE, 0, "live").hasMore) =>
               /\ PageShown(detections', detectionHistory', 0)
               /\ PageShown(detections', detectionHistory', 1)
               /\ ~isDriveFallback']_vars

----------------------------------------------------------------------------
\* Properties of the insert of uploadImagesAndSave (specification SpecItem)

\* C31: a detection row is inserted only by a call whose two uploads both succeeded, a
\* call with a failed upload inserts nothing and rejects, and a row once written is
\* neither changed nor removed.
C31_RowAfterBothUploads ==
    [][/\ detections' # detections =>
              /\ Len(detections') = Len(detections) + 1
              /\ request.pc = "save" /\ request'.outcome = "fulfilled"
              /\ request'.originalUrl # Null /\ request'.visUrl # Null
       /\ (request.pc = "save" /\ request'.pc = "idle"
           /\ (request'.originalUrl = Null \/ request'.visUrl = Null)) =>
              detections' = detections /\ request'.outcome = "rejected"
       /\ \A k \in 1..Len(detections) :
              k <= Len(detections') /\ detections'[k] = detections[k]]_vars

\* a call whose visualization upload failed after the original was uploaded has been
\* rejected, and the store holds a row of an earlier call
C31_Witness ==
    /\ request.op = "item" /\ request.pc = "idle" /\ request.outcome = "rejected"
    /\ request.originalUrl # Null /\ request.visUrl = Null
    /\ detections # <<>>

----------------------------------------------------------------------------
\* Properties of the item fan-out (specification Spec)

\* the item pipelines of slot s that have not settled
InFlight(s) ==
    IF calls[s].pc = "items"
    THEN {k \in 1..Len(calls[s].out) : calls[s].out[k] \in {"pending", "hung"}}
    ELSE {}

RECURSIVE TotalInFlight(_)
\* the number of unsettled item pipelines of the slots S
TotalInFlight(S) ==
    IF S = {} THEN 0
    ELSE LET s == CHOOSE x \in S : TRUE
         IN  Cardinality(InFlight(s)) + TotalInFlight(S \ {s})

\* C32: the item pipelines in flight in the service, over all its calls, are never more
\* than the batch size the running processLatestImages call was asked for.
C32_BoundedFanOut ==
    \A s \in Slots :
        (calls[s].kind = "run" /\ calls[s].pc = "items") =>
            TotalInFlight(Slots) <= calls[s].limit

\* a run asked for one image has one pipeline in flight while the archive holds two
\* unprocessed images
C32_Witness ==
    \E s \in Slots :
        /\ calls[s].kind = "run" /\ calls[s].pc = "items"
        /\ calls[s].limit = 1 /\ Cardinality(InFlight(s)) = 1
        /\ Cardinality(StillUnprocessed(processedImages)) = 2

----------------------------------------------------------------------------
\* Properties of the confidence of a textual label (specification SpecLabel)

\* C33: the confidence of a label is the percentage in it, clamped to 0..100, when the
\* label holds a percentage; else the probability in it as a percentage, clamped to
\* 0..100, when it holds a probability; and the default of 95 (healthy) or 90 only when
\* it holds neither.  It is always within 0..100.
C33_ConfidenceOfLabel ==
    (request.op = "label" /\ request.pc = "done") =>
        /\ reply.confidence \in 0..1000
        /\ reply.confidence =
               IF PercentMatch(request.label) # <<>>
               THEN Clamp(10 * NumberOf(PercentMatch(request.label)))
               ELSE IF ProbMatch(request.label) >= 0 THEN Clamp(ProbMatch(request.label))
               ELSE DefaultConfidence(request.isHealthy)


\* ---------------------------------------------------------------------------------
\* Termination of the page loads of the feed (specification SpecLoads)
\* ---------------------------------------------------------------------------------
\* the feed at its mount, also over an archive whose only date folder holds no image;
\* the model may be loaded already
LoadsInit ==
    /\ layout \in {"one", "none", "hollow"}
    /\ detections \in InitialStores
    /\ ServiceNew
    /\ detectionHistory = <<>>
    /\ isLoadingPage = TRUE
    /\ isDriveFallback = FALSE
    /\ processedDriveIds = {}
    /\ driveCache = <<>>
    /\ driveFolders = 0
    /\ driveFolderIndex = 0
    /\ drivePage = 0
    /\ isModelLoaded \in BOOLEAN
    /\ isAutoProcessing = FALSE
    /\ hasMoreDisplay = TRUE
    /\ supabasePage = 0
    /\ supabaseHasMore = FALSE
    /\ driveHasMore = FALSE
    /\ fetchable \in SUBSET Images
    /\ threads = [t \in Threads |->
                    IF t = 1 THEN [NoThread EXCEPT !.op = "mount", !.pc = "list",
                                                   !.cl = [MountClosure EXCEPT
                                                              !.model = isModelLoaded]]
                    ELSE NoThread]
    /\ request = NoRequest
    /\ reply = NoReply
    /\ started = 1
    /\ issued = {}
    /\ repeated = FALSE

\* the page load of the mount effect alone: the user does nothing
LoadsNext ==
    \/ \E t \in Threads, ok \in BOOLEAN : CloudListed(t, ok)
    \/ \E t \in Threads, ok \in BOOLEAN, seedOk \in BOOLEAN : DriveScanned(t, ok, seedOk)
    \/ \E t \in Threads : DriveSelect(t)
    \/ \E t \in Threads : DriveFetched(t)
    \/ \E t \in Threads, detected \in SUBSET Images, saved \in SUBSET Images :
           DetectSettled(t, detected, saved)
    \/ \E t \in Threads : Unwind(t)

\* every remote call of the page load answers or fails in the end, and the event loop then
\* runs the continuation that became ready
SpecLoads == LoadsInit /\ [][LoadsNext]_vars /\ WF_vars(LoadsNext)

\* C34: every loadCloudHistoryPage(uid, 0) call terminates, whatever the store and the
\* archive hold: the call the mount effect makes returns in the end (or is given up at the
\* nesting bound of the model), its nested loadDriveRecent and loadCloudHistoryPage calls
\* do not go on calling each other forever.
C34_MountLoadTerminates ==
    \A t \in Threads :
        (threads[t].op = "mount") ~> (threads[t].op = "none" \/ threads[t].pc = "cut")

\* ---------------------------------------------------------------------------------
\* Properties of the switch to the fallback scan (specification SpecFeed)
\* ---------------------------------------------------------------------------------
\* loadCloudHistoryPage(uid, 0) goes on to loadDriveRecent(0)
StartsFallback(t) ==
    threads[t].pc = "list" /\ threads'[t].pc \in {"scan", "select"}

\* C35: on the first page the feed starts the fallback archive scan only when the store
\* really holds no live record of the user: the query answered, and with no row; a failed
\* listUserAnalysesPaged query does not start the scan.
C35_FallbackOnlyOnEmptyStore ==
    [][\A t \in Threads : StartsFallback(t) =>
           /\ reply'.ok
           /\ LiveIds(Viewer) = {}]_vars

\* ---------------------------------------------------------------------------------
\* Seeding of the ledger after a reset (specification SpecReset)
\* ---------------------------------------------------------------------------------
\* the service used by one user, with a store whose listProcessedDriveIds query answers
ResetNext ==
    \/ \E s \in Slots : UiProcessLatest(s, Viewer)
    \/ \E s \in Slots, id \in 1..MaxTimers : StartAutoMonitoring(s, Viewer, id)
    \/ StopAutoMonitoring
    \/ \E s \in Slots, t \in timers : Tick(s, t)
    \/ \E s \in Slots : ProbeHasMore(s, Viewer)
    \/ \E s \in Slots : ProcessNextBatch(s, Viewer)
    \/ \E s \in Slots : SeedReturn(s, TRUE)
    \/ \E s \in Slots, ok \in BOOLEAN : FoldersReturn(s, ok)
    \/ \E s \in Slots, ok \in BOOLEAN : ListReturn(s, ok)
    \/ \E s \in Slots : RunScanned(s)
    \/ \E s \in Slots : ProbeScanned(s)
    \/ \E s \in Slots : NextScanned(s)
    \/ \E s \in Slots, k \in 1..NumImages, ok \in BOOLEAN : ItemSettle(s, k, ok)
    \/ \E s \in Slots : Return(s)
    \/ ResetProcessedCache
    \/ Destroy

SpecReset == SvcInit /\ [][ResetNext]_vars

C37_ProcessedIdsOnlyGrow ==
    [][processedDriveIds \subseteq processedDriveIds']_vars

\* thread t is inside a loadDriveRecent call that has not returned
InDriveLoad(t) ==
    /\ threads[t].pc # "cut"
    /\ \/ threads[t].pc \in {"scan", "select", "fetch"}
       \/ \E k \in 1..Len(threads[t].stack) :
              threads[t].stack[k] \in {"driveEmpty", "driveDetect"}

\* C38: at most one loadDriveRecent of the feed is in flight at any time: while one is
\* running no second one starts and interleaves with it.
C38_OneFallbackLoadInFlight ==
    Cardinality({t \in Threads : InDriveLoad(t)}) <= 1

\* ---------------------------------------------------------------------------------
\* The feed when the signed-in user changes (specification SpecSwitch)
\* ---------------------------------------------------------------------------------
\* the feed of user u at its mount; the AI service has not become ready
SwitchInit ==
    /\ layout \in Layouts
    /\ detections \in UserStores
    /\ ServiceNew
    /\ detectionHistory = <<>>
    /\ isLoadingPage = TRUE
    /\ isDriveFallback = FALSE
    /\ processedDriveIds = {}
    /\ driveCache = <<>>
    /\ driveFolders = 0
    /\ driveFolderIndex = 0
    /\ drivePage = 0
    /\ isModelLoaded = FALSE
    /\ isAutoProcessing = FALSE
    /\ hasMoreDisplay = TRUE
    /\ supabasePage = 0
    /\ supabaseHasMore = FALSE
    /\ driveHasMore = FALSE
    /\ fetchable \in SUBSET Images
    /\ \E u \in TwoUsers :
           /\ request = Session(u)
           /\ threads = [t \in Threads |->
                           IF t = 1 THEN [NoThread EXCEPT !.op = "mount", !.pc = "list",
                                                          !.cl = [MountClosure EXCEPT !.uid = u]]
                           ELSE NoThread]
    /\ reply = NoReply
    /\ started = 1
    /\ issued = {}
    /\ repeated = FALSE

\* currentUser.uid changes to u: the cleanup of the init effect calls destroy(); the effect
\* at line 222 calls loadCloudHistoryPage(u, 0) from the render that saw the new user and
\* the state of the old one; the reset effect clears the Drive state and the history. The
\* model load the init effect starts again has not answered.
SwitchFeedUser(u) ==
    /\ Settled
    /\ request.user # u
    /\ started < MaxCalls /\ FreeThreads # {}
    /\ request' = Session(u)
    /\ timers' = {t \in timers : t[1] # pollingInterval}
    /\ pollingInterval' = 0
    /\ processedImages' = {}
    /\ ingested' = {}
    /\ failedLast' = {}
    /\ calls' = Outdated
    /\ threads' = [threads EXCEPT ![FirstFree(FreeThreads)] =
           [NoThread EXCEPT !.op = "mount", !.pc = "list", !.cl = [Closure EXCEPT !.uid = u]]]
    /\ started' = started + 1
    /\ isLoadingPage' = TRUE
    /\ driveCache' = <<>>
    /\ driveFolders' = 0
    /\ driveFolderIndex' = 0
    /\ drivePage' = 0
    /\ processedDriveIds' = {}
    /\ detectionHistory' = <<>>
    /\ isDriveFallback' = FALSE
    /\ issued' = IF processedDriveIds' # processedDriveIds THEN {} ELSE issued
    /\ UNCHANGED <<layout, detections, isProcessing, isModelLoaded, isAutoProcessing,
                   hasMoreDisplay, fetchable, repeated, supabasePage, supabaseHasMore,
                   driveHasMore, reply>>

SwitchNext ==
    \/ \E t \in Threads, ok \in BOOLEAN : CloudListed(t, ok)
    \/ \E t \in Threads, ok \in BOOLEAN, seedOk \in BOOLEAN : DriveScanned(t, ok, seedOk)
    \/ \E t \in Threads : DriveSelect(t)
    \/ \E t \in Threads : DriveFetched(t)
    \/ \E t \in Threads : Unwind(t)
    \/ \E u \in TwoUsers : SwitchFeedUser(u)

SpecSwitch == SwitchInit /\ [][SwitchNext]_vars

\* a call of thread t that was started for a user who is no longer signed in takes a step
LateStep(t) ==
    /\ threads[t].op # "none"
    /\ threads[t].cl.uid # request.user
    /\ threads'[t] # threads[t]

\* C39: once the reset of a user change has run, detectionHistory, processedDriveIds and
\* the scan cursor receive nothing from a page load or fallback scan that was started for
\* the previous user and completes later: a step of such a call leaves them as they are.
C39_NothingFromPreviousUser ==
    [][\A t \in Threads : LateStep(t) =>
           UNCHANGED <<detectionHistory, processedDriveIds, driveCache, driveFolders,
                       driveFolderIndex, drivePage>>]_vars
====
